---- MODULE Spec2Model ----
(***************************************************************************)
(* A model of the openmct-cesium plugin: the CesiumService (two source     *)
(* variants, "A" = src/src/services/CesiumService.js lines 1-281 with the  *)
(* lagging render clock, "B" = lines 282-545 with sample pruning), the     *)
(* SpiceWorker, the globe view component and the plugin's view provider,   *)
(* and the older CesiumViewer.vue component over its singleton service.    *)
(*                                                                         *)
(* Time instants (Date milliseconds and Cesium JulianDates alike) are kept *)
(* as integer milliseconds since the epoch; JulianDate.addSeconds(t, s)    *)
(* is t + s * MsPerSecond.                                                 *)
(***************************************************************************)
EXTENDS Integers, Sequences, FiniteSets, TLC

\* ------------------------------------------------------------------ bounds
MaxUtc == 3
MaxPose == 2
\* live samples of the ingestion specification
MaxLive == 4
\* addSatellite calls and live samples of the lifecycle specification
MaxCalls == 2
MaxFeed == 2
\* live samples and wall-clock frames per clock setting of the clock specification
MaxSamples == 2
MaxTicks == 2
\* bounds handlers of the viewer component suspended at once
MaxReloads == 2
\* addSatellite calls and live samples of the delivery specification
MaxDeliveries == 1
\* live samples and clock frames of the sensor specification
MaxSensorFeed == 1
MaxSensorTicks == 1

\* ------------------------------------------------------- program constants
LagSeconds == 1
RetentionSeconds == 3600
MsPerSecond == 1000

\* ------------------------------------------------------------ input domains
Ids == {"s1", "s1-2"}

\* An id as the list of its parts between '-'
Parts(id) == IF id = "s1-2" THEN << "s1", "2" >> ELSE << id >>

\* String.startsWith(prefix + '-') on lists of parts
StartsWith(parts, prefix) ==
    Len(prefix) < Len(parts) /\ SubSeq(parts, 1, Len(prefix)) = prefix
UtcStep == 30 * 60 * MsPerSecond
Utcs == {k * UtcStep : k \in 0..MaxUtc}
Poses == 1..MaxPose
NoQ == 0
NoGen == 0
NoSub == 0
NoEntity == "none"
NoPos == 0

\* A live datum: utc plus the position/attitude payload p
Datums == [utc : Utcs, p : Poses]

HPoint(u, p, q) == [utc |-> u, p |-> p, hasQ |-> q]

\* A request that resolves with undefined instead of an array of points
NoHistory == << [utc |-> 0 - 1, p |-> 0, hasQ |-> FALSE] >>

\* History batches returned by openmct.telemetry.request: empty, missing,
\* ascending with quaternions, unsorted without quaternions, and a mixed batch.
Histories ==
    { << >>, NoHistory,
      << HPoint(UtcStep, 1, TRUE), HPoint(2 * UtcStep, 2, TRUE) >>,
      << HPoint(2 * UtcStep, 1, FALSE), HPoint(UtcStep, 2, FALSE) >>,
      << HPoint(UtcStep, 2, TRUE), HPoint(3 * UtcStep, 1, FALSE) >> }

BoundEnds == {UtcStep, 2 * UtcStep}

\* The windows openmct.time.getBounds() and the 'bounds' event report
\* No history has been handed to the service
NoBounds == [start |-> 0, end |-> 0]

BoundsSet == { [start |-> 0, end |-> UtcStep], [start |-> UtcStep, end |-> 2 * UtcStep] }

VARIABLES
    variant,        \* which CesiumService source variant is loaded: "A" or "B"
    timeOnReturns,  \* what openmct.time.on(...) hands back: "unsubscribe" or "emitter"
    realTime,       \* openmct.time.isRealTime()
    boundsListeners,\* number of service 'bounds' handlers registered with openmct.time
    viewer,         \* this.viewer !== null
    stopBounds,     \* this.stopBounds: "noop", "null", "unsubscribe", "emitter"
    clockTime,      \* viewer.clock.currentTime (ms)
    clockTicks,     \* wall-clock frames since the clock was last set
    trackedEntity,  \* viewer.trackedEntity (an id or NoEntity)
    viewerEntities, \* ids of viewer.entities
    entitiesMap,    \* this.entitiesMap: id -> index into tracks (NoGen if absent)
    tracks,         \* every props object ever created, in creation order
    workerUp,       \* the worker has not been terminated
    workerInbox,    \* messages posted to the worker, not yet handled
    workerOutbox,   \* messages posted by the worker, not yet delivered
    mounted,        \* component: "new", "mounted", "unmounted"
    unsubscribes,   \* component's unsubscribes Map: id -> subscription (NoSub if absent)
    subs,           \* every telemetry subscription ever made: [id, active]
    calls,          \* every addSatellite call: [id, gen, pc]
    liveCount,      \* live samples delivered so far
    last,           \* the handler that ran last and how it ended
    cvMounted,      \* CesiumViewer.vue: "new", "mounted", "unmounted"
    cvSatellite,    \* props.domainObject is a satellite
    cvRefs,         \* telemetryUnsubscribe, timeListener, clockListener, tickListener
    cvHandlers,     \* events of openmct.time that hold a handler of the component
    cvSubActive,    \* the component's telemetry subscription delivers
    cvMountAwait,   \* the window onMounted requested the history of while it is
                    \* suspended in await loadHistoricalData (NoBounds if it is not)
    cvReloads,      \* 'bounds' handlers in event order: awaiting loadHistoricalData or done
    trajectory,     \* the window whose history setSatelliteTrajectory last took
    legacyViewer,   \* singleton service: this.viewer !== null
    legacyClock,    \* the clock of the Viewer the singleton service created
    satelliteEntities, \* singleton service: the satellite's entity position (NoPos if absent)
    sensorBuild,    \* which addSensor is loaded: "service" (CesiumService.js) or "part_009"
    sensors,        \* viewer.entities of sensors: satellite id -> [cone, footprint]
    rendered,       \* what the sensor callbacks returned in the last rendered frame
    cameraBuild,    \* which camera methods are loaded: "service" (CesiumService.js,
                    \* part_009) or "part_008"
    zoomTarget,     \* the entity viewer.flyTo was asked for and has not yet resolved
    ownership,      \* two views: "instance" (a service per view) or "singleton"
    views,          \* two views: view -> [mounted, unsubscribes, subscribed]
    services,       \* two views: service -> [viewer, entities, keys, props, currentTime, camera, worker]
    pending,        \* two views: addSatellite calls [id, view, pc, overtaken], awaiting or settled
    activeService   \* plugin: the service the tree actions command (NoService if null)

vars == << variant, timeOnReturns, realTime, boundsListeners, viewer, stopBounds,
           clockTime, clockTicks, trackedEntity, viewerEntities, entitiesMap,
           tracks, workerUp, workerInbox, workerOutbox, mounted, unsubscribes,
           subs, calls, liveCount, last, cvMounted, cvSatellite, cvRefs, cvHandlers,
           cvSubActive, cvMountAwait, cvReloads, trajectory, legacyViewer, legacyClock,
           satelliteEntities, sensorBuild, sensors, rendered, cameraBuild, zoomTarget,
           ownership, views, services, pending, activeService >>

timeVars == << realTime, boundsListeners >>
viewerVars == << viewer, stopBounds, clockTime, clockTicks, trackedEntity, viewerEntities >>
trackVars == << entitiesMap, tracks >>
workerVars == << workerUp, workerInbox, workerOutbox >>
compVars == << mounted, unsubscribes, subs, calls >>
envVars == << variant, timeOnReturns, cameraBuild, ownership >>
cvVars == << cvMounted, cvSatellite, cvRefs, cvHandlers, cvSubActive, cvMountAwait,
             cvReloads, trajectory, legacyViewer, legacyClock, satelliteEntities >>
sensorVars == << sensorBuild, sensors, rendered >>
serviceVars == << boundsListeners, viewerVars, trackVars, workerVars, compVars, liveCount,
                 sensorVars, zoomTarget, views, services, pending, activeService >>

\* ------------------------------------------------------------------ curves
\* A SampledProperty: a function from sample times to sample values.
EmptyCurve == [t \in {} |-> 0]

\* SampledProperty.addSample(time, value): insert, or overwrite the sample at time
AddSample(c, t, v) == [x \in (DOMAIN c) \cup {t} |-> IF x = t THEN v ELSE c[x]]

\* SampledProperty.removeSamples(interval) with both ends included
RemoveSamples(c, start, stop) ==
    [x \in {y \in DOMAIN c : ~(start <= y /\ y <= stop)} |-> c[x]]

\* HermitePolynomialApproximation.getRequiredDataPoints(degree): the service
\* sets interpolationDegree 2 (lines 1-281, part_009) or 3 (lines 282-545)
RequiredDataPoints == IF variant = "A" THEN 3 ELSE 4

\* The samples getValue interpolates from at a time t between two samples:
\* numberOfPoints = min(required, length) consecutive samples around t, the
\* window shifted back into the collection where it would run over an end.
InterpolationWindow(D, t) ==
    LET length == Cardinality(D)
        numberOfPoints == IF RequiredDataPoints < length THEN RequiredDataPoints ELSE length
        degree == numberOfPoints - 1
        index == Cardinality({x \in D : x < t})
        computedFirst == IF index - (degree \div 2) - 1 < 0 THEN 0
                         ELSE index - (degree \div 2) - 1
        lastIndex == IF computedFirst + degree > length - 1 THEN length - 1
                     ELSE computedFirst + degree
        firstIndex == IF computedFirst + degree > length - 1
                      THEN (IF lastIndex - degree < 0 THEN 0 ELSE lastIndex - degree)
                      ELSE computedFirst
    IN {x \in D : Cardinality({y \in D : y < x}) \in firstIndex..lastIndex}

\* SampledProperty.getValue(time): the sample at a sample time, a value
\* interpolated from the samples of the window between two sample times, and
\* outside the sampled range the last sample under HOLD, else undefined.
Undefined == << "undefined" >>
GetValue(c, t, hold) ==
    LET D == DOMAIN c IN
    IF D = {} THEN Undefined
    ELSE IF t \in D THEN << "sample", c[t] >>
    ELSE LET before == {x \in D : x < t}
             after == {x \in D : x > t}
         IN IF before = {} THEN Undefined
            ELSE IF after = {}
                 THEN (IF hold THEN << "sample", c[CHOOSE m \in before : \A x \in before : x <= m] >>
                       ELSE Undefined)
            ELSE << "interpolated", t, [x \in InterpolationWindow(D, t) |-> c[x]] >>

MaxOf(S) == CHOOSE m \in S : \A x \in S : x <= m

\* JulianDate.fromDate(new Date(ms)) and JulianDate.addSeconds
JulianFromDate(ms) == ms
AddSeconds(t, s) == t + s * MsPerSecond

NewTrack == [positionProperty |-> EmptyCurve,
             orientationProperty |-> EmptyCurve,
             lastUpdateTime |-> 0]

\* forwardExtrapolationType: variant B sets HOLD on the position curve only;
\* every other curve keeps Cesium's default, NONE.
PositionExtrapolation == IF variant = "B" THEN "HOLD" ELSE "NONE"
OrientationExtrapolation == "NONE"

\* The pose the entity of a track shows at time t
QueryPose(track, t) ==
    [position |-> GetValue(track.positionProperty, t, PositionExtrapolation = "HOLD"),
     orientation |-> GetValue(track.orientationProperty, t, OrientationExtrapolation = "HOLD")]

\* The instants a pose is asked for: the sample grid and one step past it
QueryTimes == Utcs \cup {(MaxUtc + 1) * UtcStep}

Ev(op, err) == [op |-> op, err |-> err]

\* CesiumViewer.vue: the four references of setup(), all null
NoRefs == [telemetryUnsubscribe |-> "null", timeListener |-> "null",
           clockListener |-> "null", tickListener |-> "null"]

\* No Viewer has been constructed yet
NoClock == [startTime |-> 0, stopTime |-> 0, currentTime |-> 0, shouldAnimate |-> FALSE]

\* new Cesium.Viewer(...): its clock starts at the system time, stops one day
\* later and does not animate
MsPerDay == 86400000
NewClock(now) == [startTime |-> now, stopTime |-> now + MsPerDay, currentTime |-> now,
                  shouldAnimate |-> FALSE]

\* No frame with sensor entities has been rendered yet
NoFrame == {}

\* Two views of the globe, and the container no viewer was built in
Views == {1, 2}
NoContainer == 0

\* let activeService = null
NoService == 0

\* const instanceService = new CesiumService(): the service of the one view
\* the single-view scenarios show
InstanceService == 3

\* A view before show(): not mounted; unsubscribes is the component's Map (per
\* id "none", or the unsubscribe function recorded last: "active", "ended" once
\* it was called), subscribed counts the view's active subscriptions per id
NewView == [mounted |-> "new", unsubscribes |-> [i \in Ids |-> "none"],
            subscribed |-> [i \in Ids |-> 0]]

\* A service object after its constructor: this.viewer is null (NoContainer),
\* viewer.entities and the keys of entitiesMap are empty; props holds what
\* entitiesMap keeps under each key, currentTime is viewer.clock.currentTime,
\* trackedEntity and zoomTarget are the viewer's camera lock and pending zoom;
\* workerUp, inbox and outbox are the Worker the constructor of the class
\* starts and the messages on their way to it and back
NewService == [viewer |-> NoContainer, entities |-> {}, keys |-> {},
               props |-> [i \in Ids |-> NewTrack], currentTime |-> 0,
               trackedEntity |-> NoEntity, zoomTarget |-> NoEntity,
               workerUp |-> TRUE, inbox |-> << >>, outbox |-> << >>]

Init ==
    /\ variant \in {"A", "B"}
    /\ timeOnReturns \in {"unsubscribe", "emitter"}
    /\ realTime \in BOOLEAN
    /\ boundsListeners = 0
    /\ viewer = FALSE
    /\ stopBounds = IF variant = "A" THEN "noop" ELSE "null"
    /\ clockTime = 0
    /\ clockTicks = 0
    /\ trackedEntity = NoEntity
    /\ viewerEntities = {}
    /\ entitiesMap = [i \in Ids |-> NoGen]
    /\ tracks = << >>
    /\ workerUp = TRUE
    /\ workerInbox = << >>
    /\ workerOutbox = << >>
    /\ mounted = "new"
    /\ unsubscribes = [i \in Ids |-> NoSub]
    /\ subs = << >>
    /\ calls = << >>
    /\ liveCount = 0
    /\ last = Ev("construct", FALSE)
    /\ cvMounted = "new"
    /\ cvSatellite = FALSE
    /\ cvRefs = NoRefs
    /\ cvHandlers = {}
    /\ cvSubActive = FALSE
    /\ cvMountAwait = NoBounds
    /\ cvReloads = << >>
    /\ trajectory = NoBounds
    /\ legacyViewer = FALSE
    /\ legacyClock = NoClock
    /\ satelliteEntities = NoPos
    /\ sensorBuild \in {"service", "part_009"}
    /\ sensors = {}
    /\ rendered = NoFrame
    /\ cameraBuild \in {"service", "part_008"}
    /\ zoomTarget = NoEntity
    /\ ownership \in {"instance", "singleton"}
    /\ views = [v \in Views |-> NewView]
    /\ services = [v \in Views |-> NewService]
    /\ pending = << >>
    /\ activeService = NoService

\* ------------------------------------------------------- CesiumService.init
\* The wall-clock instants at which a viewer may be constructed (Cesium's Clock
\* starts at the current system time).
InitClocks == BoundEnds

\* openmct.time.on('bounds', handler) registers the handler; the service keeps
\* whatever on() returned in this.stopBounds.
\* Variant B calls what an earlier init left in this.stopBounds before it
\* registers the handler: an emitter object there is not a function, and the
\* call raises a TypeError after the viewer was constructed.
InitThrows == ~viewer /\ variant = "B" /\ stopBounds = "emitter"

InitService(now) ==
    IF viewer
    THEN UNCHANGED << timeVars, viewerVars >>
    ELSE /\ viewer' = TRUE
         /\ clockTime' = now
         /\ clockTicks' = 0
         /\ trackedEntity' = NoEntity
         /\ viewerEntities' = {}
         /\ boundsListeners' =
                IF InitThrows \/ (variant = "B" /\ stopBounds = "unsubscribe")
                THEN boundsListeners
                ELSE boundsListeners + 1
         /\ stopBounds' = IF InitThrows THEN stopBounds ELSE timeOnReturns
         /\ UNCHANGED realTime

\* The view provider's show() makes the view's service the active one and
\* mounts the component, whose onMounted calls cesiumService.init and registers
\* the composition listeners.
ViewShow ==
    /\ mounted = "new"
    /\ activeService' = InstanceService
    /\ \E now \in InitClocks : InitService(now)
    /\ mounted' = "mounted"
    /\ last' = Ev("init", InitThrows)
    /\ UNCHANGED << envVars, cvVars, views, services, pending, zoomTarget, sensorVars, trackVars, workerVars, unsubscribes, subs, calls, liveCount >>

\* ----------------------------------------------- openmct.telemetry.subscribe
\* The .then callback of onAdd: subscribe and record the unsubscribe function.
Subscribed(id) ==
    /\ subs' = Append(subs, [id |-> id, active |-> TRUE])
    /\ unsubscribes' = [unsubscribes EXCEPT ![id] = Len(subs) + 1]

\* ------------------------------------------------ CesiumService.addSatellite
\* The outcome of the synchronous part of addSatellite(child):
\*   "present"  entitiesMap already has the id: return
\*   "noviewer" variant A returns when there is no viewer
\*   "throws"   variant B dereferences the null viewer; entities.add rejects an
\*              id the collection already holds
\*   "created"  the entity and the track are created, the history is requested
AddOutcome(id) ==
    IF entitiesMap[id] # NoGen THEN "present"
    ELSE IF ~viewer THEN (IF variant = "A" THEN "noviewer" ELSE "throws")
    ELSE IF id \in viewerEntities THEN "throws"
    ELSE "created"

\* The component's onAdd(child): addSatellite(child).then(subscribe).  The
\* callback of a call that returned without awaiting ("returned") runs in a
\* later microtask, after whatever the task that emitted 'add' still does.
OnAdd(id) ==
    /\ mounted # "new"
    /\ LET out == AddOutcome(id) IN
       /\ IF out = "created"
          THEN /\ tracks' = Append(tracks, NewTrack)
               /\ entitiesMap' = [entitiesMap EXCEPT ![id] = Len(tracks) + 1]
               /\ viewerEntities' = viewerEntities \cup {id}
               /\ calls' = Append(calls, [id |-> id, gen |-> Len(tracks) + 1, pc |-> "request"])
               /\ UNCHANGED << subs, unsubscribes >>
          ELSE /\ UNCHANGED << trackVars, viewerEntities >>
               /\ IF out = "throws"
                  THEN /\ calls' = Append(calls, [id |-> id, gen |-> NoGen, pc |-> "rejected"])
                       /\ UNCHANGED << subs, unsubscribes >>
                  ELSE /\ calls' = Append(calls, [id |-> id, gen |-> NoGen, pc |-> "returned"])
                       /\ UNCHANGED << subs, unsubscribes >>
       /\ last' = Ev("add_" \o out, out = "throws")
    /\ UNCHANGED << envVars, cvVars, views, services, pending, activeService, zoomTarget, sensorVars, timeVars, viewer, stopBounds, clockTime, clockTicks,
                    trackedEntity, workerVars, mounted, liveCount >>

\* The .then callback of call k, whose addSatellite has returned: at once, or
\* after its await
OnAddThen(k) ==
    /\ calls[k].pc = "returned"
    /\ calls' = [calls EXCEPT ![k].pc = "resolved"]
    /\ Subscribed(calls[k].id)
    /\ last' = Ev("subscribed", FALSE)
    /\ UNCHANGED << envVars, cvVars, views, services, pending, activeService, zoomTarget, sensorVars, timeVars, viewerVars, trackVars, workerVars,
                    mounted, liveCount >>

\* worker.postMessage: a terminated worker silently takes nothing.
PostToWorker(id, gen, data) ==
    IF workerUp
    THEN Append(workerInbox, [type |-> "PROCESS_TELEMETRY", id |-> id, gen |-> gen, data |-> data])
    ELSE workerInbox

\* A test that lets every result through to the worker
HasPointsAlways(h) == TRUE

\* history?.length (variant A), history && history.length > 0 (variant B)
HasPoints(h) == h # NoHistory /\ Len(h) > 0

\* The history request of call k resolves with h: the rest of addSatellite
\* posts a non-empty history to the worker and returns, which fulfils the
\* promise; the component's .then callback waits ("returned") and subscribes
\* in a promise job of its own.
RequestResolve(k, h) ==
    /\ calls[k].pc = "request"
    /\ calls' = [calls EXCEPT ![k].pc = "returned"]
    /\ workerInbox' = IF HasPoints(h) THEN PostToWorker(calls[k].id, calls[k].gen, h)
                      ELSE workerInbox
    /\ last' = Ev("requestResolved", FALSE)
    /\ UNCHANGED << envVars, cvVars, views, services, pending, activeService, zoomTarget, sensorVars, timeVars, viewerVars, trackVars, workerUp, workerOutbox,
                    mounted, unsubscribes, subs, liveCount >>

\* The history request rejects: addSatellite's promise rejects, .then never runs.
RequestReject(k) ==
    /\ calls[k].pc = "request"
    /\ calls' = [calls EXCEPT ![k].pc = "rejected"]
    /\ last' = Ev("requestRejected", TRUE)
    /\ UNCHANGED << envVars, cvVars, views, services, pending, activeService, zoomTarget, sensorVars, timeVars, viewerVars, trackVars, workerVars,
                    mounted, unsubscribes, subs, liveCount >>

\* ------------------------------------------------------------- SpiceWorker
\* A mapping that never carries the attitude over
NormalizeWithoutQ(point) == [t |-> point.utc, p |-> point.p, q |-> NoQ]

\* The worker's data.map: utc -> t, the position keys -> p, and q only for a
\* point that carries attitude.qx.
Normalize(point) ==
    [t |-> point.utc, p |-> point.p, q |-> IF point.hasQ THEN point.p ELSE NoQ]

ProcessTelemetry(data) == [k \in 1..Len(data) |-> Normalize(data[k])]

\* self.onmessage of the worker for a PROCESS_TELEMETRY message.
WorkerOnMessage ==
    /\ workerUp
    /\ Len(workerInbox) > 0
    /\ LET m == Head(workerInbox) IN
       workerOutbox' = Append(workerOutbox,
            [type |-> "DATA_READY", id |-> m.id, gen |-> m.gen,
             payload |-> ProcessTelemetry(m.data)])
    /\ workerInbox' = Tail(workerInbox)
    /\ last' = Ev("workerProcess", FALSE)
    /\ UNCHANGED << envVars, cvVars, views, services, pending, activeService, zoomTarget, sensorVars, timeVars, viewerVars, trackVars, workerUp, compVars, liveCount >>

\* ------------------------------------------- CesiumService.applyProcessedData
RECURSIVE ApplyEach(_, _, _)
\* Variant A: payload.forEach(p => addSample to position, and to orientation if p.q)
ApplyEach(track, payload, k) ==
    IF k > Len(payload) THEN track
    ELSE LET pt == payload[k]
             t == JulianFromDate(pt.t)
             withPos == [track EXCEPT !.positionProperty = AddSample(@, t, pt.p)]
             withOri == IF pt.q # NoQ
                        THEN [withPos EXCEPT !.orientationProperty = AddSample(@, t, pt.q)]
                        ELSE withPos
         IN ApplyEach(withOri, payload, k + 1)

RECURSIVE AddSamples(_, _, _, _)
\* SampledProperty.addSamples(times, values), times and values of equal length
AddSamples(c, times, values, k) ==
    IF k > Len(times) THEN c
    ELSE AddSamples(AddSample(c, times[k], values[k]), times, values, k + 1)

PayloadTimes(payload) == [k \in 1..Len(payload) |-> JulianFromDate(payload[k].t)]
PayloadPositions(payload) == [k \in 1..Len(payload) |-> payload[k].p]
PayloadOrientations(payload) ==
    LET withQ == SelectSeq(payload, LAMBDA pt : pt.q # NoQ)
    IN [k \in 1..Len(withQ) |-> withQ[k].q]

\* Variant B: addSamples throws when times and values differ in length; the
\* positions are added before the orientations are tried.
BatchMismatch(payload) ==
    LET n == Len(PayloadOrientations(payload))
    IN n > 0 /\ n # Len(payload)

ApplyBatch(track, payload) ==
    LET withPos == [track EXCEPT !.positionProperty =
                        AddSamples(@, PayloadTimes(payload), PayloadPositions(payload), 1)]
        oris == PayloadOrientations(payload)
    IN IF Len(oris) > 0 /\ Len(oris) = Len(payload)
       THEN [withPos EXCEPT !.orientationProperty =
                        AddSamples(@, PayloadTimes(payload), oris, 1)]
       ELSE withPos

\* The track that applyProcessedData(id, payload) leaves behind
ProcessedTrack(track, payload) ==
    IF variant = "A" THEN ApplyEach(track, payload, 1) ELSE ApplyBatch(track, payload)

ApplyProcessedData(id, payload) ==
    IF entitiesMap[id] = NoGen
    THEN /\ UNCHANGED tracks
         /\ last' = Ev("applyDropped", FALSE)
    ELSE /\ tracks' = [tracks EXCEPT ![entitiesMap[id]] = ProcessedTrack(@, payload)]
         /\ last' = Ev("applyAdded", variant = "B" /\ BatchMismatch(payload))

\* worker.onmessage on the main thread: a DATA_READY message arrives.
ServiceOnWorkerMessage ==
    /\ workerUp
    /\ Len(workerOutbox) > 0
    /\ ApplyProcessedData(Head(workerOutbox).id, Head(workerOutbox).payload)
    /\ workerOutbox' = Tail(workerOutbox)
    /\ UNCHANGED << envVars, cvVars, views, services, pending, activeService, zoomTarget, sensorVars, timeVars, viewerVars, entitiesMap, workerUp, workerInbox,
                    compVars, liveCount >>

\* The browser ends the worker the constructor started (the script fails, the
\* process is killed); the service holds no 'error' handler and is not told.
WorkerCrash ==
    /\ workerUp
    /\ workerUp' = FALSE
    /\ workerInbox' = << >>
    /\ workerOutbox' = << >>
    /\ last' = Ev("workerCrash", FALSE)
    /\ UNCHANGED << envVars, cvVars, views, services, pending, activeService, zoomTarget, sensorVars, timeVars, viewerVars, trackVars, compVars, liveCount >>

\* --------------------------------------------- CesiumService.updateSatellite
\* A staleness test that lets a tie through
StaleStrict(track, d) == d.utc < track.lastUpdateTime

\* The staleness test: datum.utc <= props.lastUpdateTime
Stale(track, d) == d.utc <= track.lastUpdateTime

\* Both curves get the sample, lastUpdateTime becomes datum.utc
WithSample(track, d) ==
    [positionProperty |-> AddSample(track.positionProperty, JulianFromDate(d.utc), d.p),
     orientationProperty |-> AddSample(track.orientationProperty, JulianFromDate(d.utc), d.p),
     lastUpdateTime |-> d.utc]

\* Variant A: the render clock is put LagSeconds behind the sample
DelayedTime(d) == AddSeconds(JulianFromDate(d.utc), -LagSeconds)

\* Variant B: the interval from 1900-01-01 (before every instant of the model)
\* to utc - RetentionSeconds, both ends included, is removed from both curves
PruneTime(d) == AddSeconds(JulianFromDate(d.utc), -RetentionSeconds)

\* A pruning that reaches up to the accepted sample itself
PrunedThrough(track, d) ==
    [track EXCEPT !.positionProperty = RemoveSamples(@, -1, JulianFromDate(d.utc)),
                  !.orientationProperty = RemoveSamples(@, -1, JulianFromDate(d.utc))]

Pruned(track, d) ==
    [track EXCEPT !.positionProperty = RemoveSamples(@, -1, PruneTime(d)),
                  !.orientationProperty = RemoveSamples(@, -1, PruneTime(d))]

\* The track an accepted live sample leaves behind
Ingested(track, d) ==
    IF variant = "A" THEN WithSample(track, d) ELSE Pruned(WithSample(track, d), d)

UpdateSatellite(id, d) ==
    LET g == entitiesMap[id] IN
    IF g = NoGen
    THEN /\ UNCHANGED << tracks, clockTime, clockTicks >>
         /\ last' = Ev("updateNoTrack", FALSE)
    ELSE IF Stale(tracks[g], d)
    THEN /\ UNCHANGED << tracks, clockTime, clockTicks >>
         /\ last' = Ev("updateDropped", FALSE)
    ELSE /\ tracks' = [tracks EXCEPT ![g] = Ingested(@, d)]
         /\ IF variant = "A" /\ viewer /\ trackedEntity = NoEntity
            THEN clockTime' = DelayedTime(d) /\ clockTicks' = 0
            ELSE UNCHANGED << clockTime, clockTicks >>
         /\ last' = Ev("updateAccepted", FALSE)

\* The telemetry callback of subscription s delivers datum d.
LiveSample(s, d) ==
    /\ subs[s].active
    /\ liveCount' = liveCount + 1
    /\ UpdateSatellite(subs[s].id, d)
    /\ UNCHANGED << envVars, cvVars, views, services, pending, activeService, zoomTarget, sensorVars, timeVars, viewer, stopBounds, trackedEntity, viewerEntities,
                    entitiesMap, workerVars, compVars >>

\* --------------------------------------------- CesiumService.removeSatellite
\* The filter removeSatellite(id) applies to viewer.entities after
\* removeById(id): e.id.startsWith(id + '-') in CesiumService.js 264-271,
\* e.parent && e.parent.id === id in part_009, none in variant B
ByPrefix == variant = "A" /\ sensorBuild = "service"
ByParent == variant = "A" /\ sensorBuild = "part_009"

\* The satellite entities removeSatellite(id) takes out of the viewer: the
\* entity of that id and, under the prefix filter, every entity whose id
\* starts with id + '-' (a satellite entity has no parent)
Removed(id) ==
    IF ~viewer THEN {}
    ELSE {j \in viewerEntities :
             j = id \/ (ByPrefix /\ StartsWith(Parts(j), Parts(id)))}

\* The viewer drops its trackedEntity when that entity leaves the collection.
RemoveSatellite(id) ==
    /\ viewerEntities' = viewerEntities \ Removed(id)
    /\ trackedEntity' = IF trackedEntity \in Removed(id) THEN NoEntity ELSE trackedEntity
    /\ zoomTarget' = IF trackedEntity \in Removed(id) THEN NoEntity ELSE zoomTarget
    /\ entitiesMap' = [entitiesMap EXCEPT ![id] = NoGen]
    /\ sensors' = IF viewer /\ ByPrefix
                  THEN {e \in sensors : e.id # Parts(id) /\ ~StartsWith(e.id, Parts(id))}
                  ELSE IF viewer /\ ByParent
                  THEN {e \in sensors : e.id # Parts(id) /\ e.parent # id}
                  ELSE sensors

\* The component's onRemove(identifier)
OnRemove(id) ==
    /\ mounted # "new"
    /\ RemoveSatellite(id)
    /\ IF unsubscribes[id] # NoSub
       THEN /\ subs' = [subs EXCEPT ![unsubscribes[id]].active = FALSE]
            /\ unsubscribes' = [unsubscribes EXCEPT ![id] = NoSub]
       ELSE UNCHANGED << subs, unsubscribes >>
    /\ last' = Ev("remove", FALSE)
    /\ UNCHANGED << envVars, cvVars, views, services, pending, activeService, sensorBuild, rendered, timeVars, viewer, stopBounds, clockTime, clockTicks,
                    tracks, workerVars, mounted, calls, liveCount >>

\* ----------------------------------------------------- CesiumService.destroy
\* A stopBounds that is a function is called; lines 530-544 then set it to
\* null and part_009 to a function that does nothing, lines 273-278 keep it.
Destroy ==
    /\ boundsListeners' = IF stopBounds = "unsubscribe" /\ boundsListeners > 0
                          THEN boundsListeners - 1 ELSE boundsListeners
    /\ stopBounds' = IF stopBounds \notin {"unsubscribe", "noop"} THEN stopBounds
                     ELSE IF variant = "B" THEN "null"
                     ELSE IF sensorBuild = "part_009" THEN "noop"
                     ELSE stopBounds
    /\ viewer' = FALSE
    /\ clockTime' = 0
    /\ clockTicks' = 0
    /\ trackedEntity' = NoEntity
    /\ zoomTarget' = NoEntity
    /\ viewerEntities' = {}
    /\ workerUp' = FALSE
    /\ workerInbox' = << >>
    /\ workerOutbox' = << >>
    /\ entitiesMap' = [i \in Ids |-> NoGen]
    /\ sensors' = {}

\* The view provider's destroy(), before show(), after it, or once more:
\* activeService is reset if it is this view's service; app.unmount() of a
\* mounted app runs the component's onBeforeUnmount (every recorded unsubscribe
\* is called); then the service is destroyed.
ViewDestroy ==
    /\ activeService' = IF activeService = InstanceService THEN NoService ELSE activeService
    /\ mounted' = IF mounted = "mounted" THEN "unmounted" ELSE mounted
    /\ subs' = [k \in 1..Len(subs) |->
                 IF mounted = "mounted" /\ \E i \in Ids : unsubscribes[i] = k
                 THEN [subs[k] EXCEPT !.active = FALSE] ELSE subs[k]]
    /\ Destroy
    /\ last' = Ev("destroy", FALSE)
    /\ UNCHANGED << envVars, cvVars, views, services, pending, sensorBuild, rendered, realTime, tracks, unsubscribes, calls, liveCount >>

\* ------------------------------------------------------- the time authority
\* A 'bounds' handler that snaps in every mode
OnBoundsAnyMode(end) ==
    IF viewer
    THEN clockTime' = JulianFromDate(end) /\ clockTicks' = 0
    ELSE UNCHANGED << clockTime, clockTicks >>

\* The service's 'bounds' handler: snap to bounds.end unless in realtime mode
OnBounds(end) ==
    IF viewer /\ ~realTime
    THEN clockTime' = JulianFromDate(end) /\ clockTicks' = 0
    ELSE UNCHANGED << clockTime, clockTicks >>

\* openmct.time emits 'bounds' to the registered handler.
BoundsEvent(end) ==
    /\ boundsListeners > 0
    /\ OnBounds(end)
    /\ last' = Ev("bounds", FALSE)
    /\ UNCHANGED << envVars, cvVars, views, services, pending, activeService, zoomTarget, sensorVars, timeVars, viewer, stopBounds, trackedEntity, viewerEntities,
                    trackVars, workerVars, compVars, liveCount >>

\* The user switches the time conductor between realtime and fixed mode.
ModeChange ==
    /\ realTime' = ~realTime
    /\ last' = Ev("mode", FALSE)
    /\ UNCHANGED << envVars, cvVars, views, services, pending, activeService, zoomTarget, sensorVars, boundsListeners, viewerVars, trackVars, workerVars,
                    compVars, liveCount >>

\* ClockStep.SYSTEM_CLOCK with shouldAnimate = true: every frame moves the
\* render clock on by the wall time elapsed.
ClockTick ==
    /\ viewer
    /\ clockTime' = clockTime + MsPerSecond
    /\ clockTicks' = clockTicks + 1
    /\ last' = Ev("tick", FALSE)
    /\ UNCHANGED << envVars, cvVars, views, services, pending, activeService, zoomTarget, sensorVars, timeVars, viewer, stopBounds, trackedEntity, viewerEntities,
                    trackVars, workerVars, compVars, liveCount >>

\* ------------------------------------------------------------------ camera
\* The setter of viewer.trackedEntity: a new value cancels a pending zoom.
SetTrackedEntity(value) ==
    /\ trackedEntity' = value
    /\ zoomTarget' = IF value # trackedEntity THEN NoEntity ELSE zoomTarget

\* The class of CesiumService.js 1-281 defines neither trackEntity nor
\* flyToEntity; the class of lines 282-545, part_008 and part_009 define both.
HasCameraMethods == variant = "B" \/ cameraBuild = "part_008" \/ sensorBuild = "part_009"

\* The plugin's Follow Target action: if (activeService) activeService
\* .trackEntity(id).  On a service without the method the call raises a
\* TypeError; trackEntity(id) locks the camera to an entity of the collection.
TrackEntity(id) ==
    /\ IF activeService # NoService /\ HasCameraMethods /\ viewer /\ id \in viewerEntities
       THEN SetTrackedEntity(id)
       ELSE UNCHANGED << trackedEntity, zoomTarget >>
    /\ last' = Ev("track", activeService # NoService /\ ~HasCameraMethods)
    /\ UNCHANGED << envVars, cvVars, views, services, pending, activeService, sensorVars, timeVars, viewer, stopBounds, clockTime, clockTicks,
                    viewerEntities, trackVars, workerVars, compVars, liveCount >>

\* resetView() of CesiumService.js 516-523 and of part_008 206-214, the two
\* classes that define it: without a viewer it returns, else it releases the
\* camera lock (the setter drops a pending zoom when it changes the lock) and
\* flies the camera home; camera.cancelFlight() of part_008 stops a flight
\* under way, not a zoom that has yet to start.
ResetView ==
    /\ variant = "B" \/ cameraBuild = "part_008"
    /\ IF viewer THEN SetTrackedEntity(NoEntity)
       ELSE UNCHANGED << trackedEntity, zoomTarget >>
    /\ last' = Ev("reset", FALSE)
    /\ UNCHANGED << envVars, cvVars, views, services, pending, activeService, sensorVars, timeVars, viewer, stopBounds, clockTime, clockTicks,
                    viewerEntities, trackVars, workerVars, compVars, liveCount >>

\* flyToEntity(id) of part_008 releases the lock before it looks the entity
\* up: the setter drops a pending zoom when it changes the lock, and
\* viewer.flyTo(entity) replaces it
FlyToEntityReleasing(id) ==
    IF ~viewer THEN UNCHANGED << trackedEntity, zoomTarget >>
    ELSE /\ trackedEntity' = NoEntity
         /\ zoomTarget' = IF id \in viewerEntities THEN id
                          ELSE IF trackedEntity # NoEntity THEN NoEntity
                          ELSE zoomTarget

\* flyToEntity(id) of CesiumService.js 507-514 and part_009: viewer.flyTo(entity) for
\* an entity of the collection, nothing otherwise.  viewer.flyTo drops a
\* pending zoom and records its target; the flight starts in a later frame.
FlyToEntityFound(id) ==
    IF viewer /\ id \in viewerEntities
    THEN zoomTarget' = id /\ UNCHANGED trackedEntity
    ELSE UNCHANGED << trackedEntity, zoomTarget >>

\* The plugin's Jump to Target action: if (activeService) activeService
\* .flyToEntity(id), a TypeError on a service without the method
FlyToEntity(id) ==
    /\ IF activeService = NoService \/ ~HasCameraMethods
       THEN UNCHANGED << trackedEntity, zoomTarget >>
       ELSE IF cameraBuild = "part_008" THEN FlyToEntityReleasing(id)
       ELSE FlyToEntityFound(id)
    /\ last' = Ev("flyTo", activeService # NoService /\ ~HasCameraMethods)
    /\ UNCHANGED << envVars, cvVars, views, services, pending, activeService, sensorVars, timeVars, viewer, stopBounds, clockTime, clockTicks,
                    viewerEntities, trackVars, workerVars, compVars, liveCount >>

\* The bounding sphere of an entity can be computed in this frame: the entity
\* is in the collection and its position is defined at the render clock.
HasBoundingSphere(id) ==
    /\ id \in viewerEntities
    /\ entitiesMap[id] # NoGen
    /\ QueryPose(tracks[entitiesMap[id]], clockTime).position # Undefined

\* A frame with a zoom pending: with a bounding sphere the viewer stops
\* tracking and starts the flight, without one it cancels the zoom.
ZoomFrame ==
    /\ viewer
    /\ zoomTarget # NoEntity
    /\ trackedEntity' = IF HasBoundingSphere(zoomTarget) THEN NoEntity ELSE trackedEntity
    /\ zoomTarget' = NoEntity
    /\ last' = Ev(IF HasBoundingSphere(zoomTarget) THEN "zoom" ELSE "zoomCancelled", FALSE)
    /\ UNCHANGED << envVars, cvVars, views, services, pending, activeService, sensorVars, timeVars, viewer, stopBounds, clockTime, clockTicks,
                    viewerEntities, trackVars, workerVars, compVars, liveCount >>

\* ----------------------------------------------------------------- sensors
\* Vectors are integer triples (metres); a rotation, which the code carries as
\* a unit quaternion, is kept as its 3x3 rotation matrix (a triple of rows), so
\* that Quaternion.multiply is the matrix product and Matrix3.fromQuaternion
\* the matrix itself.  Angles are in degrees: Math.toRadians(90) is 90 and
\* Math.PI is 180.
UNIT_X == << 1, 0, 0 >>
UNIT_Y == << 0, 1, 0 >>
UNIT_Z == << 0, 0, 1 >>
ZERO == << 0, 0, 0 >>
IDENTITY == << UNIT_X, UNIT_Y, UNIT_Z >>

Negate(v) == << 0 - v[1], 0 - v[2], 0 - v[3] >>
Add(a, b) == << a[1] + b[1], a[2] + b[2], a[3] + b[3] >>
MultiplyByScalar(v, k) == << v[1] * k, v[2] * k, v[3] * k >>
Dot(a, b) == a[1] * b[1] + a[2] * b[2] + a[3] * b[3]
MultiplyByVector(m, v) == << Dot(m[1], v), Dot(m[2], v), Dot(m[3], v) >>
Column(m, j) == << m[1][j], m[2][j], m[3][j] >>
Multiply(a, b) ==
    [i \in 1..3 |-> [j \in 1..3 |-> Dot(a[i], Column(b, j))]]

CosDeg(deg) == CASE deg = 0 -> 1 [] deg = 90 -> 0 [] deg = 0 - 90 -> 0 [] deg = 180 -> 0 - 1
SinDeg(deg) == CASE deg = 0 -> 0 [] deg = 90 -> 1 [] deg = 0 - 90 -> 0 - 1 [] deg = 180 -> 0

\* Quaternion.fromAxisAngle(axis, angle) for a unit axis, as a rotation matrix
FromAxisAngle(axis, deg) ==
    LET c == CosDeg(deg)
        s == SinDeg(deg)
        K == << << 0, 0 - axis[3], axis[2] >>,
                << axis[3], 0, 0 - axis[1] >>,
                << 0 - axis[2], axis[1], 0 >> >>
    IN [i \in 1..3 |-> [j \in 1..3 |->
            (IF i = j THEN c ELSE 0) + (1 - c) * axis[i] * axis[j] + s * K[i][j]]]

\* The WGS84 equatorial radius of Cesium's default ellipsoid
EquatorialRadius == 6378137

\* Cartesian3.fromDegrees(0, 0, altitude): a point of the equatorial X axis
FromDegrees(altitude) == << EquatorialRadius + altitude, 0, 0 >>

\* The position and the attitude a telemetry payload p stands for: payload 1
\* is a point at the centre of the body with the identity attitude, the others
\* orbit above the equator with attitudes turned by quarter turns.
AltitudeOf(p) == IF p = 1 THEN 0 - EquatorialRadius ELSE (p - 1) * 621863
PositionOf(p) == FromDegrees(AltitudeOf(p))
Attitudes == << IDENTITY, FromAxisAngle(UNIT_Y, 90), FromAxisAngle(UNIT_Z, 90),
                FromAxisAngle(UNIT_X, 0 - 90) >>
OrientationOf(p) == Attitudes[((p - 1) % Len(Attitudes)) + 1]

\* What a curve's getValue stands for: undefined, a value, or a blend of the
\* samples of the interpolation window (a polynomial through samples that are
\* all equal is that sample).
Value(x) == << "value", x >>
IsValue(v) == v[1] = "value"
Resolved(v) ==
    IF v = Undefined THEN Undefined
    ELSE IF v[1] = "sample" THEN Value(v[2])
    ELSE IF \A x, y \in DOMAIN v[3] : v[3][x] = v[3][y]
         THEN Value(v[3][CHOOSE x \in DOMAIN v[3] : TRUE])
    ELSE << "blend", v[2], v[3] >>

\* A sensor definition: range 0 and direction "none" stand for an absent field;
\* the fields fov, shape and color of the sensor form are optional, and so is
\* the aspectRatio addSensor reads from the object it is given.
Directions == {"+X", "-X", "+Y", "-Y", "+Z", "-Z"}
NoDirection == "none"
DefaultRange == 800000
DefaultFov == 30
Ranges == {0, 1000}
SensorObjs == [range : Ranges, direction : Directions \cup {NoDirection}]
SensorKey == "cam"
Raised == << "raised" >>

\* const range = sensorObj.range || 800000
Range(sensorObj) == IF sensorObj.range = 0 THEN DefaultRange ELSE sensorObj.range
\* const fov = sensorObj.fov || 30
Fov(sensorObj) ==
    IF "fov" \in DOMAIN sensorObj /\ sensorObj.fov # 0 THEN sensorObj.fov ELSE DefaultFov

\* Color.fromCssColorString(sensorObj.color || '#ffff00'): the colour, or
\* undefined for a string that is no CSS colour. The form's Color field is a
\* free text field.
CssColors == {"#ffff00", "red"}
FromCssColorString(sensorObj) ==
    LET color == IF "color" \in DOMAIN sensorObj /\ sensorObj.color # ""
                 THEN sensorObj.color ELSE "#ffff00"
    IN IF color \in CssColors THEN Value(color) ELSE Undefined

\* The switch over sensorObj.direction that picks the local pointing vector
LocalDir(direction) ==
    CASE direction = "+X" -> UNIT_X
      [] direction = "-X" -> Negate(UNIT_X)
      [] direction = "+Y" -> UNIT_Y
      [] direction = "-Y" -> Negate(UNIT_Y)
      [] direction = "-Z" -> Negate(UNIT_Z)
      [] OTHER -> UNIT_Z

\* The axisCorrection of CesiumService.js, set in the same switch
AxisCorrectionService(direction) ==
    CASE direction = "+X" -> FromAxisAngle(UNIT_Y, 90)
      [] direction = "-X" -> FromAxisAngle(UNIT_Y, 0 - 90)
      [] direction = "+Y" -> FromAxisAngle(UNIT_X, 0 - 90)
      [] direction = "-Y" -> FromAxisAngle(UNIT_X, 90)
      [] direction = "-Z" -> FromAxisAngle(UNIT_X, 180)
      [] OTHER -> IDENTITY

\* The axisCorrection of part_009, chosen inside the orientation callback by
\* direction === '-Z', direction.includes('X'), direction.includes('Y');
\* includes() of an absent direction raises.
AxisCorrectionPart009(direction) ==
    IF direction = NoDirection THEN Raised
    ELSE IF direction = "-Z" THEN FromAxisAngle(UNIT_X, 180)
    ELSE IF direction \in {"+X", "-X"} THEN FromAxisAngle(UNIT_Y, 90)
    ELSE IF direction \in {"+Y", "-Y"} THEN FromAxisAngle(UNIT_X, 90)
    ELSE IDENTITY

AxisCorrection(build, direction) ==
    IF build = "service" THEN AxisCorrectionService(direction)
    ELSE AxisCorrectionPart009(direction)

\* satProps.positionProperty.getValue(time) and orientationProperty.getValue(time)
SatPosition(satProps, time) ==
    LET v == Resolved(GetValue(tracks[satProps].positionProperty, time, FALSE))
    IN IF IsValue(v) THEN Value(PositionOf(v[2])) ELSE v
SatOrientation(satProps, time) ==
    LET v == Resolved(GetValue(tracks[satProps].orientationProperty, time, FALSE))
    IN IF IsValue(v) THEN Value(OrientationOf(v[2])) ELSE v

\* worldDir = Matrix3.fromQuaternion(ori) * localDir, then pos + worldDir * (range / 2)
Offset(pos, ori, localDir, range) ==
    Add(pos, MultiplyByScalar(MultiplyByVector(ori, localDir), range \div 2))

\* The cone's position callback
ConePosition(sensorObj, satProps, time) ==
    IF satProps = NoGen THEN Raised
    ELSE LET pos == SatPosition(satProps, time)
             ori == SatOrientation(satProps, time)
         IN IF pos = Undefined \/ ori = Undefined THEN pos
            ELSE IF IsValue(pos) /\ IsValue(ori)
                 THEN Value(Offset(pos[2], ori[2], LocalDir(sensorObj.direction),
                                   Range(sensorObj)))
                 ELSE << "blend", pos, ori >>

\* The cone's orientation callback: satOri * axisCorrection
ConeOrientation(build, sensorObj, satProps, time) ==
    IF satProps = NoGen THEN Raised
    ELSE LET satOri == SatOrientation(satProps, time)
             axisCorrection == AxisCorrection(build, sensorObj.direction)
         IN IF satOri = Undefined THEN Undefined
            ELSE IF axisCorrection = Raised THEN Raised
            ELSE IF IsValue(satOri) THEN Value(Multiply(satOri[2], axisCorrection))
            ELSE << "blend", satOri >>

\* The cylinder primitive {length: range, topRadius: 0.0}: Cesium places the
\* top cap at +length/2 and the bottom cap at -length/2 of the entity's local
\* Z axis, so the zero-radius end is the centre moved by orientation * Z * length/2.
CylinderTop(centre, orientation, length) ==
    IF IsValue(centre) /\ IsValue(orientation)
    THEN Value(Add(centre[2],
                   MultiplyByScalar(MultiplyByVector(orientation[2], UNIT_Z), length \div 2)))
    ELSE Undefined

\* viewer.scene.globe.pick(ray, scene) for a ray from a point of the X axis
\* along a principal axis: the ray meets the body when it starts outside and
\* runs towards the centre, and pick reports the crossing only when the
\* terrain tiles there are loaded.
Pick(pos, worldDir, loaded) ==
    IF pos[1] > EquatorialRadius /\ worldDir = Negate(UNIT_X) /\ loaded
    THEN Value(<< EquatorialRadius, 0, 0 >>)
    ELSE Undefined

\* The footprint's position callback
FootprintPosition(sensorObj, satProps, time, loaded) ==
    IF satProps = NoGen THEN Raised
    ELSE LET pos == SatPosition(satProps, time)
             ori == SatOrientation(satProps, time)
         IN IF pos = Undefined \/ ori = Undefined THEN Undefined
            ELSE IF IsValue(pos) /\ IsValue(ori)
                 THEN Pick(pos[2], MultiplyByVector(ori[2], LocalDir(sensorObj.direction)), loaded)
                 ELSE << "blend", pos, ori >>

\* Cartographic.fromCartesian(pos): undefined at the centre of the body, else
\* the height above the equatorial radius (pos lies on an equatorial axis).
FromCartesian(pos) ==
    IF pos = ZERO THEN Undefined
    ELSE Value((IF pos[1] < 0 THEN 0 - pos[1] ELSE pos[1])
               + (IF pos[2] < 0 THEN 0 - pos[2] ELSE pos[2]) - EquatorialRadius)

\* aspect of the semiMinorAxis callback: sensorObj.aspectRatio || 1.0 for a
\* frustum, 1 for every other shape
Aspect(sensorObj) ==
    IF /\ "shape" \in DOMAIN sensorObj /\ sensorObj.shape = "frustum"
       /\ "aspectRatio" \in DOMAIN sensorObj /\ sensorObj.aspectRatio # 0
    THEN sensorObj.aspectRatio ELSE 1

\* The semiMajorAxis and semiMinorAxis callbacks: 0 without a position, else
\* tan(fov / 2) * fromCartesian(pos).height * aspect, kept as the triple
\* (fov, height, aspect); aspect is 1 for the semiMajorAxis.
SemiAxis(sensorObj, satProps, time, aspect) ==
    IF satProps = NoGen THEN Raised
    ELSE LET pos == SatPosition(satProps, time)
         IN IF pos = Undefined THEN Value(0)
            ELSE IF ~IsValue(pos) THEN << "blend", pos, aspect >>
            ELSE IF FromCartesian(pos[2]) = Undefined THEN Raised
            ELSE << "tanHalfFovTimes", Fov(sensorObj), FromCartesian(pos[2])[2], aspect >>

\* Sensor entities: the id is the list of the parts the code joins with '-'.
\* sensorObj.identifier.key as the list of its parts between '-'; a definition
\* that names no key stands for the sensor SensorKey.
KeyOf(sensorObj) == IF "key" \in DOMAIN sensorObj THEN sensorObj.key ELSE << SensorKey >>

\* satelliteId + '-' + key, and that id + '-footprint'
SensorId(satelliteId, key) == Parts(satelliteId) \o key
FootprintId(satelliteId, key) == SensorId(satelliteId, key) \o << "footprint" >>
RemoveById(entities, id) == {e \in entities : e.id # id}
\* viewer.entities.add rejects an id the collection already holds
Rejects(entities, id) == \E e \in entities : e.id = id
EntitiesAdd(entities, e) == IF Rejects(entities, e.id) THEN entities ELSE entities \cup {e}
\* parent: viewer.entities.getById(satelliteId) in part_009, the satellite's
\* entity if the collection holds one when the cone is built; CesiumService.js
\* sets no parent
ParentOf(satelliteId) ==
    IF sensorBuild = "part_009" /\ satelliteId \in viewerEntities THEN satelliteId ELSE NoEntity
\* slices: 4 for a frustum and 64 otherwise in CesiumService.js; part_009 sets
\* none and the cylinder keeps the library's 128.
Cone(satelliteId, sensorObj, satProps) ==
    [id |-> SensorId(satelliteId, KeyOf(sensorObj)), shape |-> "cylinder", sensorObj |-> sensorObj,
     satProps |-> satProps, owner |-> satelliteId, parent |-> ParentOf(satelliteId),
     color |-> FromCssColorString(sensorObj),
     slices |-> IF sensorBuild = "part_009" THEN 128
                ELSE IF "shape" \in DOMAIN sensorObj /\ sensorObj.shape = "frustum" THEN 4
                ELSE 64]
Footprint(satelliteId, sensorObj, satProps) ==
    [id |-> FootprintId(satelliteId, KeyOf(sensorObj)), shape |-> "ellipse", sensorObj |-> sensorObj,
     satProps |-> satProps, owner |-> satelliteId, parent |-> NoEntity,
     color |-> FromCssColorString(sensorObj), slices |-> 0]

\* The entities after addSensor(satelliteId, sensorObj) with a viewer:
\* CesiumService.js removes the cone and the footprint and adds both again;
\* part_009 removes and adds the cone only. The colour is parsed after the
\* removals and color.withAlpha is evaluated before the first entities.add:
\* with an unparseable colour it raises and nothing is added again.
SensorsAfterAdd(satelliteId, sensorObj) ==
    LET satProps == entitiesMap[satelliteId]
        cleared == IF sensorBuild = "service"
                   THEN RemoveById(RemoveById(sensors, SensorId(satelliteId, KeyOf(sensorObj))),
                                   FootprintId(satelliteId, KeyOf(sensorObj)))
                   ELSE RemoveById(sensors, SensorId(satelliteId, KeyOf(sensorObj)))
        withCone == EntitiesAdd(cleared, Cone(satelliteId, sensorObj, satProps))
    IN IF FromCssColorString(sensorObj) = Undefined THEN cleared
       ELSE IF sensorBuild = "service"
       THEN EntitiesAdd(withCone, Footprint(satelliteId, sensorObj, satProps))
       ELSE withCone

\* addSensor raised (color.withAlpha or entities.add): an entity it meant to
\* add is not in the collection
AddRejected(satelliteId, sensorObj) ==
    LET satProps == entitiesMap[satelliteId]
        after == SensorsAfterAdd(satelliteId, sensorObj)
    IN \/ Cone(satelliteId, sensorObj, satProps) \notin after
       \/ sensorBuild = "service" /\ Footprint(satelliteId, sensorObj, satProps) \notin after

\* addSensor(satelliteId, sensorObj), called by the composition listeners that
\* addSatellite registers and never removes, and by the sensor-aware globe
\* component (on 'add' and on every edit it observes) with the id it takes
\* for the parent; without a viewer it returns.
AddSensor(satelliteId, sensorObj) ==
    /\ variant = "A"
    /\ mounted # "new"
    /\ sensors' = IF viewer THEN SensorsAfterAdd(satelliteId, sensorObj) ELSE sensors
    /\ last' = Ev("addSensor", viewer /\ AddRejected(satelliteId, sensorObj))
    /\ UNCHANGED << envVars, cvVars, views, services, pending, activeService, zoomTarget, timeVars, viewerVars, trackVars, workerVars, compVars,
                    liveCount, sensorBuild, rendered >>

\* removeSensor(satelliteId, sensorIdentifier), called by the composition
\* 'remove' listener; part_009 removes the cone only.
RemoveSensor(satelliteId, key) ==
    /\ variant = "A"
    /\ \E k \in 1..Len(calls) : calls[k].id = satelliteId /\ calls[k].gen # NoGen
    /\ sensors' = IF ~viewer THEN sensors
                  ELSE IF sensorBuild = "service"
                  THEN RemoveById(RemoveById(sensors, SensorId(satelliteId, key)),
                                  FootprintId(satelliteId, key))
                  ELSE RemoveById(sensors, SensorId(satelliteId, key))
    /\ last' = Ev("removeSensor", FALSE)
    /\ UNCHANGED << envVars, cvVars, views, services, pending, activeService, zoomTarget, timeVars, viewerVars, trackVars, workerVars, compVars,
                    liveCount, sensorBuild, rendered >>

\* What one frame evaluates for a sensor entity at the render clock
Evaluated(e, time, loaded) ==
    IF e.shape = "cylinder"
    THEN LET position == ConePosition(e.sensorObj, e.satProps, time)
             orientation == ConeOrientation(sensorBuild, e.sensorObj, e.satProps, time)
         IN [id |-> e.id, shape |-> e.shape, sensorObj |-> e.sensorObj,
             satProps |-> e.satProps, time |-> time,
             position |-> position, orientation |-> orientation,
             top |-> CylinderTop(position, orientation, Range(e.sensorObj)),
             semiMajorAxis |-> Undefined, semiMinorAxis |-> Undefined]
    ELSE [id |-> e.id, shape |-> e.shape, sensorObj |-> e.sensorObj,
          satProps |-> e.satProps, time |-> time,
          position |-> FootprintPosition(e.sensorObj, e.satProps, time, loaded),
          orientation |-> Undefined, top |-> Undefined,
          semiMajorAxis |-> SemiAxis(e.sensorObj, e.satProps, time, 1),
          semiMinorAxis |-> SemiAxis(e.sensorObj, e.satProps, time, Aspect(e.sensorObj))]

RaisedIn(out) ==
    Raised \in {out.position, out.orientation, out.semiMajorAxis, out.semiMinorAxis}

\* One rendered frame: Cesium evaluates the callback properties of every
\* sensor entity at viewer.clock.currentTime.
RenderFrame(loaded) ==
    /\ viewer
    /\ sensors # {}
    /\ rendered' = {Evaluated(e, clockTime, loaded) : e \in sensors}
    /\ last' = Ev("render", \E e \in sensors : RaisedIn(Evaluated(e, clockTime, loaded)))
    /\ UNCHANGED << envVars, cvVars, views, services, pending, activeService, zoomTarget, timeVars, viewerVars, trackVars, workerVars, compVars,
                    liveCount, sensorBuild, sensors >>

\* ------------------------------------ CesiumViewer.vue and its singleton service
\* The handler function the component hands to openmct.time.on(event, ...)
HandlerOf(event) == "handler_" \o event

\* openmct.time.on(event, handler) registers the handler and returns what the
\* time authority returns from on(): never the handler itself.
TimeOn(event) == timeOnReturns

\* openmct.time.off(event, fn) removes the listener whose function is fn
TimeOff(handlers, event, fn) ==
    IF fn = HandlerOf(event) THEN handlers \ {event} ELSE handlers

\* onMounted up to its first await: initializeViewer, then loadHistoricalData
\* issues the history request for a satellite domain object, over the window b
\* that openmct.time.getBounds() reports at that moment.
CvOnMounted(isSatellite, b, now) ==
    /\ cvMounted = "new"
    /\ cvMounted' = "mounted"
    /\ cvSatellite' = isSatellite
    /\ legacyViewer' = TRUE
    /\ legacyClock' = IF legacyViewer THEN legacyClock ELSE NewClock(now)
    /\ cvMountAwait' = IF isSatellite THEN b ELSE NoBounds
    /\ last' = Ev("cvMounted", FALSE)
    /\ UNCHANGED << envVars, timeVars, serviceVars, cvRefs, cvHandlers, cvSubActive,
                    cvReloads, satelliteEntities, trajectory >>

\* setupTimeIntegration keeps what on() returned for each of the three events
ListenerRefs ==
    IF ~legacyViewer THEN cvRefs
    ELSE [cvRefs EXCEPT !.timeListener = TimeOn("bounds"),
                        !.clockListener = TimeOn("clock"),
                        !.tickListener = TimeOn("tick")]

\* setupTimeIntegration: without a viewer it returns at once; else it registers
\* the bounds, clock and tick handlers and sets the initial clock state.
SetupTimeIntegration(b, now) ==
    IF ~legacyViewer
    THEN UNCHANGED << cvHandlers, legacyClock >>
    ELSE /\ cvHandlers' = cvHandlers \cup {"bounds", "clock", "tick"}
         /\ legacyClock' = [startTime |-> b.start, stopTime |-> b.end,
                            currentTime |-> IF realTime THEN now ELSE b.start,
                            shouldAnimate |-> realTime]

\* CesiumService.setSatelliteTrajectory(satelliteId, historicalData): neither
\* the class nor the singleton service defines it, the call raises a TypeError
SetSatelliteTrajectory(b) == Raised

\* loadHistoricalData after its await: a non-empty result of the request over
\* window b is handed to setSatelliteTrajectory, and the catch of
\* loadHistoricalData takes what that call raises; an empty result, or a
\* rejected request, changes nothing.
LoadHistoricalData(b, loaded) ==
    IF loaded /\ SetSatelliteTrajectory(b) # Raised THEN SetSatelliteTrajectory(b)
    ELSE trajectory

\* The history request of onMounted settles: onMounted resumes with
\* setupTimeIntegration, which reads the window b the time authority reports
\* now, and the telemetry subscription.
CvMountResumes(b, loaded, now) ==
    /\ cvMountAwait # NoBounds
    /\ cvMountAwait' = NoBounds
    /\ trajectory' = LoadHistoricalData(cvMountAwait, loaded)
    /\ SetupTimeIntegration(b, now)
    /\ cvRefs' = [ListenerRefs EXCEPT !.telemetryUnsubscribe = "unsubscribe"]
    /\ cvSubActive' = TRUE
    /\ last' = Ev("cvSetup", FALSE)
    /\ UNCHANGED << envVars, timeVars, serviceVars, cvMounted, cvSatellite, cvReloads,
                    legacyViewer, satelliteEntities >>

\* The component's 'bounds' handler up to its await loadHistoricalData, which
\* requests the history of the window the time authority reports
CvBoundsEvent(b) ==
    /\ "bounds" \in cvHandlers
    /\ cvReloads' = Append(cvReloads, [bounds |-> b, pc |-> "await"])
    /\ last' = Ev("cvBounds", FALSE)
    /\ UNCHANGED << envVars, timeVars, serviceVars, cvMounted, cvSatellite, cvRefs,
                    cvHandlers, cvSubActive, cvMountAwait, legacyViewer, legacyClock,
                    satelliteEntities, trajectory >>

\* The reload of the k-th 'bounds' handler settles, in whatever order the
\* requests complete, and the handler resumes: it writes the clock of the
\* Viewer that setupTimeIntegration captured.  Once destroy() has destroyed
\* that Viewer, viewer.clock raises a TypeError, the handler's promise rejects
\* and nothing is written.
CvBoundsResumes(k, loaded, now) ==
    /\ k \in 1..Len(cvReloads)
    /\ cvReloads[k].pc = "await"
    /\ cvReloads' = [cvReloads EXCEPT ![k].pc = IF legacyViewer THEN "done" ELSE "rejected"]
    /\ trajectory' = LoadHistoricalData(cvReloads[k].bounds, loaded)
    /\ legacyClock' = IF ~legacyViewer THEN legacyClock
                      ELSE [legacyClock EXCEPT
                               !.startTime = cvReloads[k].bounds.start,
                               !.stopTime = cvReloads[k].bounds.end,
                               !.currentTime = IF realTime THEN now
                                               ELSE cvReloads[k].bounds.start]
    /\ last' = Ev("cvBoundsResumed", ~legacyViewer)
    /\ UNCHANGED << envVars, timeVars, serviceVars, cvMounted, cvSatellite, cvRefs,
                    cvHandlers, cvSubActive, cvMountAwait, legacyViewer, satelliteEntities >>

\* A 'clock' handler that starts the animation in realtime mode and never
\* stops it again
CvClockEventOneWay(now) ==
    /\ realTime' = ~realTime
    /\ IF "clock" \in cvHandlers
       THEN /\ legacyClock' = IF realTime' /\ legacyViewer
                              THEN [legacyClock EXCEPT !.currentTime = now, !.shouldAnimate = TRUE]
                              ELSE legacyClock
            /\ last' = Ev("cvClock", realTime' /\ ~legacyViewer)
       ELSE /\ UNCHANGED legacyClock
            /\ last' = Ev("mode", FALSE)
    /\ UNCHANGED << envVars, serviceVars, cvMounted, cvSatellite, cvRefs, cvHandlers,
                    cvSubActive, cvMountAwait, cvReloads, legacyViewer, satelliteEntities, trajectory >>

\* The time conductor changes mode and emits 'clock'; the component's handler
\* runs if it is registered.  On a destroyed Viewer both branches raise a
\* TypeError at viewer.clock, which emit lets through, and write nothing.
CvClockEvent(now) ==
    /\ realTime' = ~realTime
    /\ IF "clock" \in cvHandlers
       THEN /\ legacyClock' = IF ~legacyViewer THEN legacyClock
                              ELSE IF realTime'
                              THEN [legacyClock EXCEPT !.currentTime = now, !.shouldAnimate = TRUE]
                              ELSE [legacyClock EXCEPT !.shouldAnimate = FALSE]
            /\ last' = Ev("cvClock", ~legacyViewer)
       ELSE /\ UNCHANGED legacyClock
            /\ last' = Ev("mode", FALSE)
    /\ UNCHANGED << envVars, serviceVars, cvMounted, cvSatellite, cvRefs, cvHandlers,
                    cvSubActive, cvMountAwait, cvReloads, legacyViewer, satelliteEntities, trajectory >>

\* The component's 'tick' handler: in fixed mode the clock follows the tick;
\* on a destroyed Viewer the write raises a TypeError at viewer.clock
CvTickEvent(timestamp) ==
    /\ "tick" \in cvHandlers
    /\ legacyClock' = IF ~realTime /\ legacyViewer
                      THEN [legacyClock EXCEPT !.currentTime = JulianFromDate(timestamp)]
                      ELSE legacyClock
    /\ last' = Ev("cvTick", ~realTime /\ ~legacyViewer)
    /\ UNCHANGED << envVars, timeVars, serviceVars, cvMounted, cvSatellite, cvRefs,
                    cvHandlers, cvSubActive, cvMountAwait, cvReloads, legacyViewer,
                    satelliteEntities, trajectory >>

\* Singleton service, setSatellitePosition: nothing without a viewer, else the
\* entity is created or moved
SetSatellitePosition(pos) == IF legacyViewer THEN pos ELSE satelliteEntities

\* The component's telemetry callback: only in realtime mode
CvTelemetry(pos) ==
    /\ cvSubActive
    /\ satelliteEntities' = IF realTime THEN SetSatellitePosition(pos) ELSE satelliteEntities
    /\ last' = Ev("cvTelemetry", FALSE)
    /\ UNCHANGED << envVars, timeVars, serviceVars, cvMounted, cvSatellite, cvRefs,
                    cvHandlers, cvSubActive, cvMountAwait, cvReloads, legacyViewer,
                    legacyClock, trajectory >>

\* onBeforeUnmount: telemetryUnsubscribe(), off(event, <what on() returned>) for
\* the three events, removeSatellite, and the singleton service's destroy().
CvOnBeforeUnmount ==
    /\ cvMounted = "mounted"
    /\ cvMounted' = "unmounted"
    /\ cvSubActive' = IF cvRefs.telemetryUnsubscribe # "null" THEN FALSE ELSE cvSubActive
    /\ cvHandlers' = TimeOff(TimeOff(TimeOff(cvHandlers,
                                "bounds", cvRefs.timeListener),
                                "clock", cvRefs.clockListener),
                                "tick", cvRefs.tickListener)
    /\ cvRefs' = NoRefs
    /\ satelliteEntities' = IF cvSatellite THEN NoPos ELSE satelliteEntities
    /\ legacyViewer' = FALSE
    /\ last' = Ev("cvUnmount", FALSE)
    /\ UNCHANGED << envVars, timeVars, serviceVars, cvSatellite, cvMountAwait, cvReloads,
                    legacyClock, trajectory >>

\* ------------------------------------------------------ the specifications
\* Each specification runs the same handlers; it differs in the events its
\* environment produces and in how many of them.  The host destroys a view at
\* any time, shown or not, in the keys scenario, and a shown view in the
\* others.

\* The one child of the globe's composition in the scenarios below
Children == {"s1"}

\* The event loop starts a task of the main thread (a telemetry callback, a
\* message from the worker, a frame, an answer to a request, an event of the
\* host) only when no .then callback is waiting
NoMicrotask ==
    /\ \A k \in 1..Len(calls) : calls[k].pc # "returned"
    /\ \A k \in 1..Len(pending) : pending[k].pc # "returned"

\* composition.load() emits 'add' once for each child
NotYetAdded(id) == \A k \in 1..Len(calls) : calls[k].id # id

\* Ingestion: one entity, every history batch, a stream of live samples.
InitIngest == Init /\ realTime /\ timeOnReturns = "emitter" /\ sensorBuild = "service"
              /\ cameraBuild = "service" /\ ownership = "instance"

NextIngest ==
    \/ ViewShow
    \/ \E id \in Children : NotYetAdded(id) /\ OnAdd(id)
    \/ \E k \in 1..Len(calls) : OnAddThen(k)
    \/ \E k \in 1..Len(calls), h \in Histories : RequestResolve(k, h)
    \/ WorkerOnMessage
    \/ NoMicrotask /\ ServiceOnWorkerMessage
    \/ \E s \in 1..Len(subs), d \in Datums : NoMicrotask /\ liveCount < MaxLive /\ LiveSample(s, d)
    \/ \E id \in Ids : OnRemove(id)
    \/ mounted = "mounted" /\ ViewDestroy

Spec == InitIngest /\ [][NextIngest]_vars

\* Lifecycle: the entity comes and goes, and is added again, while history
\* requests and worker results are in flight.
LifeHistories == { << >>, << HPoint(UtcStep, 1, TRUE), HPoint(2 * UtcStep, 2, FALSE) >> }
LifeDatums == [utc : {UtcStep, 3 * UtcStep}, p : {1}]

NextLife ==
    \/ ViewShow
    \/ \E id \in Children : Len(calls) < MaxCalls /\ OnAdd(id)
    \/ \E k \in 1..Len(calls) : OnAddThen(k)
    \/ \E k \in 1..Len(calls), h \in LifeHistories : RequestResolve(k, h)
    \/ \E k \in 1..Len(calls) : RequestReject(k)
    \/ WorkerOnMessage
    \/ NoMicrotask /\ ServiceOnWorkerMessage
    \/ \E s \in 1..Len(subs), d \in LifeDatums : NoMicrotask /\ liveCount < MaxFeed /\ LiveSample(s, d)
    \/ \E id \in Ids : OnRemove(id)
    \/ mounted = "mounted" /\ ViewDestroy

SpecLife == InitIngest /\ [][NextLife]_vars

\* Clock: one entity without history under every event of the time authority,
\* the free-running render clock and the camera.
InitClock == Init /\ sensorBuild = "service" /\ cameraBuild = "service" /\ ownership = "instance"

NextClock ==
    \/ ViewShow
    \/ \E id \in Children : NotYetAdded(id) /\ OnAdd(id)
    \/ \E k \in 1..Len(calls) : OnAddThen(k)
    \/ \E k \in 1..Len(calls) : RequestResolve(k, << >>)
    \/ \E s \in 1..Len(subs), d \in Datums : NoMicrotask /\ liveCount < MaxSamples /\ LiveSample(s, d)
    \/ mounted = "mounted" /\ ViewDestroy
    \/ \E end \in BoundEnds : BoundsEvent(end)
    \/ ModeChange
    \/ NoMicrotask /\ clockTicks < MaxTicks /\ ClockTick
    \/ \E id \in Ids : TrackEntity(id)
    \/ ResetView

SpecClock == InitClock /\ [][NextClock]_vars

\* Viewer component: CesiumViewer.vue over the singleton service, under every
\* event of the time authority and the telemetry feed, before and after unmount.
InitViewer == Init /\ variant = "A" /\ sensorBuild = "service" /\ cameraBuild = "service" /\ ownership = "instance"

NextViewer ==
    \/ \E isSatellite \in BOOLEAN, b \in BoundsSet, now \in InitClocks :
          CvOnMounted(isSatellite, b, now)
    \/ \E b \in BoundsSet, loaded \in BOOLEAN, now \in InitClocks : CvMountResumes(b, loaded, now)
    \/ \E b \in BoundsSet : Len(cvReloads) < MaxReloads /\ CvBoundsEvent(b)
    \/ \E k \in 1..Len(cvReloads), loaded \in BOOLEAN, now \in InitClocks :
          CvBoundsResumes(k, loaded, now)
    \/ \E now \in InitClocks : CvClockEvent(now)
    \/ \E timestamp \in BoundEnds : CvTickEvent(timestamp)
    \/ \E pos \in Poses : CvTelemetry(pos)
    \/ CvOnBeforeUnmount

SpecViewer == InitViewer /\ [][NextViewer]_vars

\* Sensors: one satellite of build A whose sensor is defined, edited and
\* removed while the satellite and the view come and go.
InitSensor == Init /\ variant = "A" /\ realTime /\ timeOnReturns = "emitter"
              /\ cameraBuild = "service" /\ ownership = "instance"

\* The definitions the sensor is edited through
SensorEdits == { [range |-> 1000, direction |-> "+Z"],
                 [range |-> 1000, direction |-> "-X"],
                 [range |-> 0, direction |-> NoDirection],
                 [range |-> 0 - 1000, direction |-> "+Z"],
                 [range |-> 1000, direction |-> "-X", fov |-> 60, shape |-> "frustum",
                  aspectRatio |-> 2, color |-> "red"],
                 [range |-> 1000, direction |-> "+Z", color |-> "notacolor"] }

NextSensor ==
    \/ ViewShow
    \/ \E id \in Children : Len(calls) < MaxCalls /\ OnAdd(id)
    \/ \E k \in 1..Len(calls) : OnAddThen(k)
    \/ \E k \in 1..Len(calls) : RequestResolve(k, << >>)
    \/ \E id \in Children, sensorObj \in SensorEdits : AddSensor(id, sensorObj)
    \/ \E id \in Children : RemoveSensor(id, << SensorKey >>)
    \/ \E id \in Children : OnRemove(id)
    \/ mounted = "mounted" /\ ViewDestroy
    \/ \E loaded \in BOOLEAN : NoMicrotask /\ RenderFrame(loaded)

SpecSensor == InitSensor /\ [][NextSensor]_vars

\* Frames: one satellite of build A with a history and a live sample, one
\* sensor definition, and frames rendered while the clock runs.
FrameHistories ==
    { << >>,
      << HPoint(UtcStep, 1, TRUE), HPoint(2 * UtcStep, 2, TRUE) >>,
      << HPoint(UtcStep, 2, FALSE) >> }
FrameDatums == { [utc |-> 2 * UtcStep, p |-> 1], [utc |-> 3 * UtcStep, p |-> 2] }

NextFrame ==
    \/ ViewShow
    \/ \E id \in Children : NotYetAdded(id) /\ OnAdd(id)
    \/ \E k \in 1..Len(calls) : OnAddThen(k)
    \/ \E k \in 1..Len(calls), h \in FrameHistories : RequestResolve(k, h)
    \/ WorkerOnMessage
    \/ ServiceOnWorkerMessage
    \/ \E s \in 1..Len(subs), d \in FrameDatums : liveCount < MaxSensorFeed /\ LiveSample(s, d)
    \/ \E id \in Children, sensorObj \in SensorObjs : sensors = {} /\ AddSensor(id, sensorObj)
    \/ clockTicks < MaxSensorTicks /\ ClockTick
    \/ \E loaded \in BOOLEAN : RenderFrame(loaded)

SpecFrame == InitSensor /\ [][NextFrame]_vars

\* History: one entity whose history arrives in every order, with and without
\* two records of one timestamp, through a worker that may end at any point,
\* followed by one live sample.
BatchHistories ==
    { << >>,
      << HPoint(UtcStep, 1, TRUE), HPoint(2 * UtcStep, 2, TRUE) >>,
      << HPoint(2 * UtcStep, 2, TRUE), HPoint(UtcStep, 1, TRUE) >>,
      << HPoint(UtcStep, 1, TRUE), HPoint(UtcStep, 2, TRUE) >>,
      << HPoint(UtcStep, 2, TRUE), HPoint(UtcStep, 1, TRUE) >>,
      << HPoint(3 * UtcStep, 1, FALSE), HPoint(UtcStep, 2, TRUE), HPoint(2 * UtcStep, 1, FALSE) >> }
BatchDatums == { [utc |-> 2 * UtcStep, p |-> 1], [utc |-> 3 * UtcStep, p |-> 2] }

NextHistory ==
    \/ ViewShow
    \/ \E id \in Children : NotYetAdded(id) /\ OnAdd(id)
    \/ \E k \in 1..Len(calls) : OnAddThen(k)
    \/ \E k \in 1..Len(calls), h \in BatchHistories : RequestResolve(k, h)
    \/ WorkerOnMessage
    \/ ServiceOnWorkerMessage
    \/ WorkerCrash
    \/ \E s \in 1..Len(subs), d \in BatchDatums : liveCount < MaxSensorFeed /\ LiveSample(s, d)

SpecHistory == InitIngest /\ [][NextHistory]_vars

\* Camera: one entity with a live sample, the plugin's Follow Target and Jump
\* to Target actions on it and on an object that has no entity, resetView, and
\* the frames in which a pending zoom resolves.
InitCamera == Init /\ realTime /\ timeOnReturns = "emitter" /\ sensorBuild = "service"
              /\ (cameraBuild = "part_008" => variant = "B") /\ ownership = "instance"

NextCamera ==
    \/ ViewShow
    \/ \E id \in Children : NotYetAdded(id) /\ OnAdd(id)
    \/ \E k \in 1..Len(calls) : OnAddThen(k)
    \/ \E k \in 1..Len(calls) : RequestResolve(k, << >>)
    \/ \E s \in 1..Len(subs), d \in BatchDatums : liveCount < MaxSensorFeed /\ LiveSample(s, d)
    \/ \E id \in Ids : TrackEntity(id)
    \/ \E id \in Ids : FlyToEntity(id)
    \/ ResetView
    \/ ZoomFrame
    \/ \E id \in Children : OnRemove(id)

SpecCamera == InitCamera /\ [][NextCamera]_vars

\* Fleet: two entities feed one service in realtime mode, their sample streams
\* interleaved, while the render clock runs and the camera may lock.
InitFleet == InitIngest

NextFleet ==
    \/ ViewShow
    \/ \E id \in Ids : NotYetAdded(id) /\ OnAdd(id)
    \/ \E k \in 1..Len(calls) : OnAddThen(k)
    \/ \E k \in 1..Len(calls) : RequestResolve(k, << >>)
    \/ \E s \in 1..Len(subs), d \in BatchDatums : liveCount < MaxSamples /\ LiveSample(s, d)
    \/ clockTicks < MaxSensorTicks /\ ClockTick
    \/ \E id \in Ids : TrackEntity(id)

SpecFleet == InitFleet /\ [][NextFleet]_vars

\* Names: two satellites whose sensors are named "cam" and "cam-footprint",
\* defined, edited and removed while the satellites come and go.
SensorKeys == { << SensorKey >>, << SensorKey, "footprint" >> }
NamedSensors == { [range |-> 1000, direction |-> "+Z", key |-> key] : key \in SensorKeys }

NextNames ==
    \/ ViewShow
    \/ \E id \in Ids : NotYetAdded(id) /\ OnAdd(id)
    \/ \E k \in 1..Len(calls) : OnAddThen(k)
    \/ \E k \in 1..Len(calls) : RequestResolve(k, << >>)
    \/ \E id \in Ids, sensorObj \in NamedSensors : AddSensor(id, sensorObj)
    \/ \E id \in Ids, key \in SensorKeys : RemoveSensor(id, key)
    \/ \E id \in Ids : OnRemove(id)

SpecNames == InitSensor /\ [][NextNames]_vars

\* Reloads: the mounted viewer component while the time authority moves its
\* window and the history reloads, none of them empty, complete in any order.
NextReload ==
    \/ \E b \in BoundsSet, now \in InitClocks : CvOnMounted(TRUE, b, now)
    \/ \E b \in BoundsSet, now \in InitClocks : CvMountResumes(b, TRUE, now)
    \/ \E b \in BoundsSet : Len(cvReloads) < MaxReloads /\ CvBoundsEvent(b)
    \/ \E k \in 1..Len(cvReloads), now \in InitClocks : CvBoundsResumes(k, TRUE, now)
    \/ \E timestamp \in BoundEnds : CvTickEvent(timestamp)

SpecReload == InitViewer /\ [][NextReload]_vars

\* Delivery: the satellite is added, fed, removed and added again and the view
\* is destroyed while histories travel through the worker.  The browser runs a
\* worker that has a message waiting, runs a waiting .then callback, and
\* delivers a message the worker has posted: the three are weakly fair.
NextDelivery ==
    \/ ViewShow
    \/ \E id \in Children : Len(calls) < MaxDeliveries /\ OnAdd(id)
    \/ \E k \in 1..Len(calls) : OnAddThen(k)
    \/ \E k \in 1..Len(calls), h \in Histories : RequestResolve(k, h)
    \/ WorkerOnMessage
    \/ NoMicrotask /\ ServiceOnWorkerMessage
    \/ \E s \in 1..Len(subs), d \in BatchDatums : NoMicrotask /\ liveCount < MaxDeliveries /\ LiveSample(s, d)
    \/ \E id \in Children : OnRemove(id)
    \/ mounted = "mounted" /\ ViewDestroy

SpecDelivery ==
    /\ InitIngest
    /\ [][NextDelivery]_vars
    /\ WF_vars(WorkerOnMessage)
    /\ WF_vars(NoMicrotask /\ ServiceOnWorkerMessage)
    /\ WF_vars(\E k \in 1..Len(calls) : OnAddThen(k))

\* Keys: both satellites are added, added again and removed, and the view is
\* destroyed, in every order.
NextKeys ==
    \/ ViewShow
    \/ \E id \in Ids : Len(calls) <= MaxCalls /\ OnAdd(id)
    \/ \E k \in 1..Len(calls) : OnAddThen(k)
    \/ \E k \in 1..Len(calls) : RequestResolve(k, << >>)
    \/ \E id \in Ids : OnRemove(id)
    \/ ViewDestroy

SpecKeys == InitIngest /\ [][NextKeys]_vars

\* ---------------------------------------------------------------- two views
\* Two views of one globe are open side by side.  Under "instance" each view()
\* of the plugin's provider constructs its own CesiumService and provides it to
\* its component; under "singleton" both components import the one service
\* object the service module exports (part_006 over part_008).
ServiceOf(v) == IF ownership = "instance" THEN v ELSE 1

\* init(container, openmct): returns when the service has a viewer
InitOn(svc, v, now) ==
    IF svc.viewer # NoContainer THEN svc
    ELSE [svc EXCEPT !.viewer = v, !.currentTime = now]

\* addSatellite of the class raises: a null viewer dereferenced (variant B);
\* entities.add on an id the collection holds
AddThrowsOn(svc, id) ==
    /\ id \notin svc.keys
    /\ \/ svc.viewer = NoContainer /\ variant = "B"
       \/ svc.viewer # NoContainer /\ id \in svc.entities

\* addSatellite(child) of the class up to its await: it returns for a known id
\* (and variant A without viewer); else the entity and the props are created
\* and the history is requested
AddSatelliteOn(svc, id) ==
    IF AddThrowsOn(svc, id) THEN svc
    ELSE IF id \in svc.keys \/ svc.viewer = NoContainer THEN svc
    ELSE [svc EXCEPT !.entities = @ \cup {id}, !.keys = @ \cup {id}, !.props[id] = NewTrack]

\* updateSatellite(id, datum): the class as in UpdateSatellite (lines 237-252
\* set the render clock while the viewer tracks nothing); part_008 adds the
\* sample to both curves of a known id, without staleness test or clock
UpdateSatelliteOn(svc, id, d) ==
    IF id \notin svc.keys THEN svc
    ELSE IF ownership = "singleton"
    THEN [svc EXCEPT !.props[id].positionProperty = AddSample(@, JulianFromDate(d.utc), d.p),
                     !.props[id].orientationProperty = AddSample(@, JulianFromDate(d.utc), d.p)]
    ELSE IF Stale(svc.props[id], d) THEN svc
    ELSE [svc EXCEPT !.props[id] = Ingested(@, d),
                     !.currentTime = IF /\ variant = "A"
                                        /\ svc.viewer # NoContainer
                                        /\ svc.trackedEntity = NoEntity
                                     THEN DelayedTime(d) ELSE @]

\* removeSatellite(id): with a viewer the entity of that id leaves the
\* collection and, in CesiumService.js 264-271, every entity whose id starts
\* with id + '-'; the key leaves entitiesMap.  The viewer drops its
\* trackedEntity, and with it a pending zoom, when that entity leaves the
\* collection
RemoveSatelliteOn(svc, id) ==
    LET removed == IF svc.viewer = NoContainer THEN {}
                   ELSE {j \in svc.entities :
                            \/ j = id
                            \/ /\ ownership = "instance"
                               /\ ByPrefix
                               /\ StartsWith(Parts(j), Parts(id))}
    IN [svc EXCEPT !.entities = @ \ removed,
                   !.keys = @ \ {id},
                   !.props[id] = NewTrack,
                   !.trackedEntity = IF @ \in removed THEN NoEntity ELSE @,
                   !.zoomTarget = IF svc.trackedEntity \in removed THEN NoEntity ELSE @]

\* trackEntity(id) and flyToEntity(id) of CesiumService.js 502-514
TrackEntityOn(svc, id) ==
    IF svc.viewer # NoContainer /\ id \in svc.entities
    THEN [svc EXCEPT !.trackedEntity = id,
                     !.zoomTarget = IF svc.trackedEntity # id THEN NoEntity ELSE @]
    ELSE svc
FlyToEntityOn(svc, id) ==
    IF svc.viewer # NoContainer /\ id \in svc.entities
    THEN [svc EXCEPT !.zoomTarget = id]
    ELSE svc

\* destroy(): the viewer is destroyed, the worker of the class terminated
\* (what was on its way to it or back is lost), entitiesMap cleared; the
\* service of part_008 has no worker
DestroyOn(svc) ==
    IF ownership = "instance" THEN [NewService EXCEPT !.workerUp = FALSE] ELSE NewService

\* What the two-view actions leave alone
OneViewVars == << envVars, cvVars, timeVars, viewerVars, trackVars, workerVars, compVars,
                 liveCount, sensorVars, zoomTarget, last >>

\* removeSatellite(id) or destroy() of the service of view v runs while
\* addSatellite calls on that service are awaiting their history: the calls
\* stay suspended; each remembers what overtook it
Overtaken(v, ids) ==
    [k \in 1..Len(pending) |->
        IF /\ pending[k].pc = "await" /\ pending[k].id \in ids
           /\ ServiceOf(pending[k].view) = ServiceOf(v)
        THEN [pending[k] EXCEPT !.overtaken = TRUE] ELSE pending[k]]

\* const unsub = openmct.telemetry.subscribe(child, ...); unsubscribes.set(id,
\* unsub): one more active subscription, and the Map forgets the function it
\* held for the id
SubscribedIn(view, id) ==
    [view EXCEPT !.subscribed[id] = @ + 1, !.unsubscribes[id] = "active"]

\* unsubscribes.get(id)(): the subscription the Map holds for id ends; a
\* second call of the same function ends nothing
UnsubscribedIn(view, id) ==
    IF view.unsubscribes[id] = "active"
    THEN [view EXCEPT !.subscribed[id] = @ - 1, !.unsubscribes[id] = "ended"]
    ELSE view

\* onBeforeUnmount: unsubscribes.forEach(unsub => unsub()) calls the function
\* the Map holds for each id and leaves the Map as it is
RECURSIVE UnmountedIn(_, _)
UnmountedIn(view, ids) ==
    IF ids = {} THEN [view EXCEPT !.mounted = "unmounted"]
    ELSE LET i == CHOOSE x \in ids : TRUE
         IN UnmountedIn(UnsubscribedIn(view, i), ids \ {i})

\* show(element) of view v: the component mounts and calls init
ShowView(v, now) ==
    /\ views[v].mounted = "new"
    /\ views' = [views EXCEPT ![v].mounted = "mounted"]
    /\ services' = [services EXCEPT ![ServiceOf(v)] = InitOn(@, v, now)]
    /\ activeService' = IF ownership = "instance" THEN v ELSE activeService
    /\ UNCHANGED << pending, OneViewVars >>

\* onAdd(child) of view v in part_005, up to the point where addSatellite of
\* the view's own service returns its promise: rejected when it raised,
\* resolved when it returned at once ("returned"), pending while the history
\* request is ("await"); the subscribe waits in .then
AddInView(v, id) ==
    /\ ownership = "instance"
    /\ views[v].mounted # "new"
    /\ services' = [services EXCEPT ![v] = AddSatelliteOn(@, id)]
    /\ pending' = Append(pending,
          [id |-> id, view |-> v, overtaken |-> FALSE,
           pc |-> IF AddThrowsOn(services[v], id) THEN "rejected"
                  ELSE IF AddSatelliteOn(services[v], id) = services[v] THEN "returned"
                  ELSE "await"])
    /\ UNCHANGED << views, activeService, OneViewVars >>

\* this.worker.postMessage({type: 'PROCESS_TELEMETRY', id, data}): a message
\* to a terminated worker is dropped
PostOn(svc, id, data) ==
    IF svc.workerUp THEN [svc EXCEPT !.inbox = Append(@, [id |-> id, data |-> data])] ELSE svc

\* The promise of the k-th addSatellite call of part_005 settles when its
\* history request is answered with history or rejected: the rest of
\* addSatellite posts a history that has points to the worker of the view's
\* service and returns, which fulfils the promise and leaves the .then
\* callback waiting ("returned"); a rejected request rejects the promise
AddSettlesInView(k, answered, history) ==
    /\ ownership = "instance"
    /\ k \in 1..Len(pending)
    /\ pending[k].pc = "await"
    /\ pending' = [pending EXCEPT ![k].pc = IF answered THEN "returned" ELSE "rejected"]
    /\ services' = IF answered /\ HasPoints(history)
                   THEN [services EXCEPT ![pending[k].view] = PostOn(@, pending[k].id, history)]
                   ELSE services
    /\ UNCHANGED << views, activeService, OneViewVars >>

\* The .then callback of the k-th call, whose addSatellite has returned (at
\* once, or after its await): it subscribes and records the unsubscribe
\* function, whatever has happened to the entity and the view meanwhile
AddThenInView(k) ==
    /\ ownership = "instance"
    /\ k \in 1..Len(pending)
    /\ pending[k].pc = "returned"
    /\ pending' = [pending EXCEPT ![k].pc = "resolved"]
    /\ views' = [views EXCEPT ![pending[k].view] = SubscribedIn(@, pending[k].id)]
    /\ UNCHANGED << services, activeService, OneViewVars >>

\* self.onmessage of the worker of view v's service for the message at the
\* head of its queue
WorkerOnMessageIn(v) ==
    /\ ownership = "instance"
    /\ services[v].workerUp
    /\ Len(services[v].inbox) > 0
    /\ services' = [services EXCEPT ![v] =
          [@ EXCEPT !.inbox = Tail(@),
                    !.outbox = Append(@, [id |-> Head(services[v].inbox).id,
                                          payload |-> ProcessTelemetry(Head(services[v].inbox).data)])]]
    /\ UNCHANGED << views, pending, activeService, OneViewVars >>

\* worker.onmessage of view v's service for a DATA_READY message:
\* applyProcessedData(id, payload) looks the id up in entitiesMap and returns
\* when it is not there
ServiceOnWorkerMessageIn(v) ==
    /\ ownership = "instance"
    /\ services[v].workerUp
    /\ Len(services[v].outbox) > 0
    /\ LET m == Head(services[v].outbox) IN
       services' = [services EXCEPT ![v] =
          [@ EXCEPT !.outbox = Tail(@),
                    !.props[m.id] = IF m.id \in services[v].keys
                                    THEN ProcessedTrack(@, m.payload) ELSE @]]
    /\ UNCHANGED << views, pending, activeService, OneViewVars >>

\* A telemetry callback view v subscribed for id delivers datum d
TelemetryInView(v, id, d) ==
    /\ views[v].subscribed[id] > 0
    /\ services' = [services EXCEPT ![ServiceOf(v)] = UpdateSatelliteOn(@, id, d)]
    /\ UNCHANGED << views, pending, activeService, OneViewVars >>

\* onRemove(identifier) of view v: removeSatellite, then the function the Map
\* holds for the id is called and the entry deleted
RemoveInView(v, id) ==
    /\ views[v].mounted # "new"
    /\ services' = [services EXCEPT ![ServiceOf(v)] = RemoveSatelliteOn(@, id)]
    /\ views' = IF views[v].unsubscribes[id] = "none" THEN views
                ELSE [views EXCEPT ![v] = [UnsubscribedIn(@, id) EXCEPT
                                              !.unsubscribes[id] = "none"]]
    /\ pending' = Overtaken(v, {id})
    /\ UNCHANGED << activeService, OneViewVars >>

\* destroy() of view v: onBeforeUnmount ends the subscriptions the Map holds,
\* the service is destroyed.  The provider's destroy() (a service per view)
\* also runs before show() and a second time; the singleton's destroy() is the
\* component's onBeforeUnmount.
DestroyView(v) ==
    /\ ownership = "instance" \/ views[v].mounted = "mounted"
    /\ views' = IF views[v].mounted = "mounted"
                THEN [views EXCEPT ![v] = UnmountedIn(@, Ids)]
                ELSE views
    /\ services' = [services EXCEPT ![ServiceOf(v)] = DestroyOn(@)]
    /\ pending' = Overtaken(v, Ids)
    /\ activeService' = IF activeService = v THEN NoService ELSE activeService
    /\ UNCHANGED OneViewVars

\* The 'mouseenter' listener show() put on the element of view v; nothing
\* takes it off again
MouseEnter(v) ==
    /\ ownership = "instance"
    /\ views[v].mounted # "new"
    /\ activeService' = v
    /\ UNCHANGED << views, services, pending, OneViewVars >>

\* Jump to Target and Follow Target: if (activeService) activeService
\* .flyToEntity(id) or .trackEntity(id), a TypeError on a service of the class
\* without these methods; both leave a service without viewer as it is
InvokeAction(key, id) ==
    /\ ownership = "instance"
    /\ services' = IF activeService = NoService \/ ~HasCameraMethods THEN services
                   ELSE [services EXCEPT ![activeService] =
                            IF key = "cesium.follow" THEN TrackEntityOn(@, id)
                            ELSE FlyToEntityOn(@, id)]
    /\ last' = Ev(key, activeService # NoService /\ ~HasCameraMethods)
    /\ UNCHANGED << envVars, cvVars, timeVars, viewerVars, trackVars, workerVars, compVars,
                    liveCount, sensorVars, zoomTarget, views, pending, activeService >>

\* onAdd(child) of view v in part_006: addSatellite of part_008 makes the
\* history request before anything is created and is suspended there; onAdd
\* subscribes and records the unsubscribe function without waiting for it
AddAwaits(v, id) ==
    /\ ownership = "singleton"
    /\ views[v].mounted # "new"
    /\ pending' = Append(pending, [id |-> id, view |-> v, overtaken |-> FALSE, pc |-> "await"])
    /\ views' = [views EXCEPT ![v] = SubscribedIn(@, id)]
    /\ UNCHANGED << services, activeService, OneViewVars >>

\* if (history && history.length > 0) history.forEach(p => addSample): every
\* record goes into both curves
RECURSIVE Sampled(_, _)
Sampled(props, history) ==
    IF history = << >> \/ history = NoHistory THEN props
    ELSE Sampled([props EXCEPT
                     !.positionProperty = AddSample(@, JulianFromDate(Head(history).utc), Head(history).p),
                     !.orientationProperty = AddSample(@, JulianFromDate(Head(history).utc), Head(history).p)],
                 Tail(history))

\* part_008, addSatellite after its await: a rejected history request rejects
\* the promise and nothing more runs; this.viewer.entities.add raises on a
\* null viewer and on an id the collection holds (the promise rejects);
\* otherwise the entity is created and entitiesMap.set(id, ...) runs
AddResumes(k, answered, history) ==
    /\ ownership = "singleton"
    /\ k \in 1..Len(pending)
    /\ pending[k].pc = "await"
    /\ LET id == pending[k].id
           svc == services[1]
       IN IF ~answered \/ svc.viewer = NoContainer \/ id \in svc.entities
          THEN /\ pending' = [pending EXCEPT ![k].pc = "rejected"]
               /\ UNCHANGED services
          ELSE /\ pending' = [pending EXCEPT ![k].pc = "resolved"]
               /\ services' = [services EXCEPT ![1] =
                                 [@ EXCEPT !.entities = @ \cup {id}, !.keys = @ \cup {id},
                                           !.props[id] = Sampled(NewTrack, history)]]
    /\ UNCHANGED << views, activeService, OneViewVars >>

\* Pending adds: one view of part_006 over the part_008 service; satellites
\* are added and removed and the view is destroyed while history requests are
\* in flight.
InitPending == Init /\ realTime /\ timeOnReturns = "emitter" /\ sensorBuild = "service"
               /\ cameraBuild = "service" /\ ownership = "singleton" /\ variant = "A"

NextPending ==
    \/ \E v \in Views, now \in InitClocks : ShowView(v, now)
    \/ \E v \in Views, id \in Children : Len(pending) < MaxCalls /\ AddAwaits(v, id)
    \/ \E k \in 1..Len(pending), answered \in BOOLEAN, history \in Histories :
          (answered \/ history = << >>) /\ AddResumes(k, answered, history)
    \/ \E v \in Views, id \in Children, d \in BatchDatums : TelemetryInView(v, id, d)
    \/ \E v \in Views, id \in Children : RemoveInView(v, id)
    \/ \E v \in Views : DestroyView(v)

SpecPending == InitPending /\ [][NextPending]_vars

\* Focus: two views, each with its own service, are shown, entered by the
\* mouse and destroyed while the tree actions are invoked.
InitFocus == Init /\ timeOnReturns = "emitter" /\ sensorBuild = "service"
             /\ cameraBuild = "service" /\ ownership = "instance"

NextFocus ==
    \/ \E v \in Views, now \in InitClocks : NoMicrotask /\ ShowView(v, now)
    \/ \E v \in Views : NoMicrotask /\ MouseEnter(v)
    \/ \E v \in Views, id \in Children : Len(pending) < MaxCalls /\ AddInView(v, id)
    \/ \E k \in 1..Len(pending), answered \in BOOLEAN : AddSettlesInView(k, answered, << >>)
    \/ \E k \in 1..Len(pending) : AddThenInView(k)
    \/ \E v \in Views, id \in Children : RemoveInView(v, id)
    \/ \E key \in {"cesium.flyto", "cesium.follow"}, id \in Ids :
          NoMicrotask /\ InvokeAction(key, id)
    \/ \E v \in Views : NoMicrotask /\ DestroyView(v)

SpecFocus == InitFocus /\ [][NextFocus]_vars

InitViews == Init /\ realTime /\ timeOnReturns = "emitter" /\ sensorBuild = "service"
             /\ cameraBuild = "service" /\ (ownership = "singleton" => variant = "A")

NextViews ==
    \/ \E v \in Views, now \in InitClocks : NoMicrotask /\ ShowView(v, now)
    \/ \E v \in Views, id \in Ids : Len(pending) < MaxCalls /\ AddInView(v, id)
    \/ \E k \in 1..Len(pending), answered \in BOOLEAN, history \in LifeHistories :
          /\ answered \/ history = << >>
          /\ AddSettlesInView(k, answered, history)
    \/ \E k \in 1..Len(pending) : AddThenInView(k)
    \/ \E v \in Views : WorkerOnMessageIn(v)
    \/ \E v \in Views : NoMicrotask /\ ServiceOnWorkerMessageIn(v)
    \/ \E v \in Views, id \in Children : Len(pending) < MaxCalls /\ AddAwaits(v, id)
    \/ \E k \in 1..Len(pending), answered \in BOOLEAN, history \in Histories :
          (answered \/ history = << >>) /\ AddResumes(k, answered, history)
    \/ \E v \in Views, id \in Children, d \in BatchDatums :
          NoMicrotask /\ TelemetryInView(v, id, d)
    \/ \E v \in Views, id \in Ids : RemoveInView(v, id)
    \/ \E v \in Views : NoMicrotask /\ DestroyView(v)

SpecViews == InitViews /\ [][NextViews]_vars

\* ------------------------------------------------------------------ claims
Alive(g) == \E i \in Ids : entitiesMap[i] = g

\* C1: updateSatellite accepts a live sample iff datum.utc > lastUpdateTime of
\* the track; a datum with utc <= lastUpdateTime (duplicate or out of order)
\* adds no sample to any curve, leaves lastUpdateTime and the render clock
\* unchanged, raises nothing, and a query at the previous lastUpdateTime
\* returns the same pose as before.
C1_StaleSampleDropped ==
    [][\A s \in 1..Len(subs), d \in Datums :
          (LiveSample(s, d) /\ entitiesMap[subs[s].id] # NoGen) =>
             LET g == entitiesMap[subs[s].id]
                 old == tracks[g]
                 new == tracks'[g]
                 at == JulianFromDate(d.utc)
             IN IF d.utc > old.lastUpdateTime
                THEN /\ at \in DOMAIN new.positionProperty
                     /\ at \in DOMAIN new.orientationProperty
                     /\ new.positionProperty[at] = d.p
                     /\ new.orientationProperty[at] = d.p
                     /\ new.lastUpdateTime = d.utc
                ELSE /\ tracks' = tracks
                     /\ clockTime' = clockTime
                     /\ ~last'.err
                     /\ \A hold \in BOOLEAN :
                          /\ GetValue(new.positionProperty, old.lastUpdateTime, hold)
                               = GetValue(old.positionProperty, old.lastUpdateTime, hold)
                          /\ GetValue(new.orientationProperty, old.lastUpdateTime, hold)
                               = GetValue(old.orientationProperty, old.lastUpdateTime, hold)
      ]_vars

\* C1 witness: a live sample was dropped by a track that had accepted one
C1_Witness ==
    /\ last.op = "updateDropped"
    /\ \E i \in Ids : /\ entitiesMap[i] # NoGen
                       /\ tracks[entitiesMap[i]].lastUpdateTime > 0
                       /\ tracks[entitiesMap[i]].lastUpdateTime
                            \in DOMAIN tracks[entitiesMap[i]].positionProperty

\* C2: under any interleaving of history and live ingestion on one track,
\* lastUpdateTime never decreases, equals the maximum timestamp ingested into
\* the track, and no sample with a timestamp <= the lastUpdateTime current at
\* its arrival is inserted into the curves.
C2_LastUpdateIsMaximum ==
    [][\A g \in 1..Len(tracks) :
          (Alive(g) /\ entitiesMap' = entitiesMap) =>
             LET old == tracks[g]
                 new == tracks'[g]
             IN /\ new.lastUpdateTime >= old.lastUpdateTime
                /\ DOMAIN new.positionProperty # {} =>
                      new.lastUpdateTime = MaxOf(DOMAIN new.positionProperty)
                /\ \A t \in (DOMAIN new.positionProperty) \ (DOMAIN old.positionProperty) :
                      t > old.lastUpdateTime
      ]_vars

\* C3 as claimed: in realtime mode, once a live sample has been accepted, the
\* render clock always equals the latest accepted sample time minus the lag
\* (1 s) and is never ahead of the latest accepted sample.
C3_ClockAlwaysLags ==
    \A i \in Ids :
        (/\ variant = "A" /\ viewer /\ realTime
         /\ entitiesMap[i] # NoGen
         /\ tracks[entitiesMap[i]].lastUpdateTime > 0) =>
            /\ clockTime = tracks[entitiesMap[i]].lastUpdateTime - LagSeconds * MsPerSecond
            /\ clockTime <= tracks[entitiesMap[i]].lastUpdateTime

\* C4: on every bounds event the service sets the render clock to bounds.end
\* iff the time authority is in fixed mode; in realtime mode the bounds event
\* leaves the render clock unchanged.
C4_BoundsSnapIffFixed ==
    [][\A end \in BoundEnds :
          (BoundsEvent(end) /\ viewer) =>
              IF realTime
              THEN clockTime' = clockTime
              ELSE clockTime' = JulianFromDate(end)
      ]_vars

\* C4 witness: a bounds event in fixed mode has put the clock on bounds.end,
\* away from where the last accepted sample had left it
C4_Witness ==
    /\ last.op = "bounds" /\ ~realTime /\ viewer
    /\ clockTime \in BoundEnds
    /\ \E i \in Ids : /\ entitiesMap[i] # NoGen
                       /\ tracks[entitiesMap[i]].lastUpdateTime > clockTime

\* C5: a worker result produced for a track that was destroyed before the
\* result arrived is dropped: applying it adds no sample to any track and
\* raises nothing, also when the same id was added again in between.
C5_LateResultDropped ==
    [][(ServiceOnWorkerMessage /\ ~Alive(Head(workerOutbox).gen)) =>
          (tracks' = tracks /\ ~last'.err)
      ]_vars

\* C6: after the view is torn down or an entity is removed, no live-telemetry
\* subscription for that entity remains active, whenever the pending history
\* request of addSatellite settles.
C6_NoSubscriptionSurvives ==
    \A k \in 1..Len(subs) :
        subs[k].active =>
            (mounted = "mounted" /\ entitiesMap[subs[k].id] # NoGen)

\* C7: after CesiumService.destroy() every listener the service registered
\* with the time authority is unregistered, the viewer stays null, entitiesMap
\* stays empty and no bounds, live-sample or worker callback raises.
C7_DestroyUnregisters ==
    mounted = "unmounted" =>
        /\ boundsListeners = 0
        /\ ~viewer
        /\ \A i \in Ids : entitiesMap[i] = NoGen
        /\ (last.op \in {"bounds", "updateNoTrack", "updateDropped", "updateAccepted",
                          "applyDropped", "applyAdded"} => ~last.err)

\* C8: after the viewer component's onBeforeUnmount its bounds, clock and tick
\* handlers and its telemetry subscription are all unregistered, and no bounds,
\* clock, tick or telemetry callback of the component (nor the continuation of
\* a suspended bounds handler) runs afterwards.
C8_UnmountUnregisters ==
    cvMounted = "unmounted" =>
        /\ cvHandlers = {}
        /\ ~cvSubActive
        /\ last.op \notin {"cvSetup", "cvBounds", "cvBoundsResumed", "cvClock",
                           "cvTick", "cvTelemetry"}

\* The lifecycle state of track g
TrackState(ts, em, g) ==
    IF g > Len(ts) THEN "UNINITIALIZED"
    ELSE IF \A i \in Ids : em[i] # g THEN "DESTROYED"
    ELSE IF DOMAIN ts[g].positionProperty = {} /\ DOMAIN ts[g].orientationProperty = {}
         THEN "EMPTY"
    ELSE "LIVE"

\* The transitions of the claimed lifecycle, and the one the code adds:
\* an entity can be removed before any sample has reached its track
ClaimedSteps ==
    { << "UNINITIALIZED", "EMPTY" >>, << "EMPTY", "LIVE" >>, << "LIVE", "DESTROYED" >> }
CodeSteps == ClaimedSteps \cup { << "EMPTY", "DESTROYED" >> }

LifecycleWithin(steps) ==
    \A g \in 1..Len(tracks') :
        LET from == TrackState(tracks, entitiesMap, g)
            to == TrackState(tracks', entitiesMap', g)
        IN /\ (from # to => << from, to >> \in steps)
           /\ (from = "DESTROYED" => tracks'[g] = tracks[g])

\* C9 as claimed: each track follows UNINITIALIZED -> EMPTY -> LIVE ->
\* DESTROYED and no other transition, and a destroyed track never changes.
C9_ClaimedLifecycle == [][LifecycleWithin(ClaimedSteps)]_vars

\* C9 amended: each track follows UNINITIALIZED -> EMPTY (addSatellite) ->
\* LIVE (first sample added) -> DESTROYED (removeSatellite or destroy), or
\* goes from EMPTY straight to DESTROYED when it is removed before any sample
\* was added; there is no other transition, a LIVE track never returns to
\* EMPTY (also under pruning), and once a track is DESTROYED its curves and
\* lastUpdateTime never change again.
C9_Lifecycle == [][LifecycleWithin(CodeSteps)]_vars

\* C9 witness: a track that was LIVE is DESTROYED, its id has a new track, and
\* a late worker result or live sample has just been applied
C9_Witness ==
    /\ last.op \in {"applyAdded", "updateAccepted"}
    /\ \E g \in 1..Len(tracks) :
          /\ TrackState(tracks, entitiesMap, g) = "DESTROYED"
          /\ DOMAIN tracks[g].positionProperty # {}
    /\ \E g \in 1..Len(tracks) : TrackState(tracks, entitiesMap, g) = "LIVE"

\* C10: at any time every active subscription of an entity is the single one
\* recorded in the unsubscribes map, for any sequence of composition add and
\* remove events.
C10_OneSubscriptionPerEntity ==
    \A k \in 1..Len(subs) :
        subs[k].active => unsubscribes[subs[k].id] = k

\* C11: for a sensor with range R and axis A on a parent at position p with
\* orientation q at the frame's time, the cone's centre is
\* p + rotate(q, A) * (R / 2) and the zero-radius end of the cylinder is at p.
C11_ConeCentreAndApex ==
    [][\A loaded \in BOOLEAN :
         (RenderFrame(loaded) /\ sensorBuild = "service") =>
            \A e \in sensors, out \in rendered' :
                (e.shape = "cylinder" /\ out.id = e.id /\ e.satProps # NoGen) =>
                    LET p == SatPosition(e.satProps, clockTime)
                        q == SatOrientation(e.satProps, clockTime)
                        A == LocalDir(e.sensorObj.direction)
                        R == Range(e.sensorObj)
                    IN (IsValue(p) /\ IsValue(q)) =>
                          /\ out.position =
                                Value(Add(p[2], MultiplyByScalar(MultiplyByVector(q[2], A), R \div 2)))
                          /\ out.top = p]_vars

\* C12: the axisCorrection of every cone is a quarter or half turn (or the
\* identity) that maps +Z onto the local direction of the cone's offset; it is
\* the identity for +Z and a half turn for -Z.
QuarterTurns ==
    {FromAxisAngle(axis, deg) : axis \in {UNIT_X, UNIT_Y, UNIT_Z}, deg \in {90, 0 - 90, 180}}
C12_CorrectionMapsZOntoLocalDir ==
    \A e \in sensors :
        (e.shape = "cylinder" /\ e.sensorObj.direction \in Directions) =>
            LET c == AxisCorrection(sensorBuild, e.sensorObj.direction)
            IN /\ c \in QuarterTurns \cup {IDENTITY}
               /\ MultiplyByVector(c, UNIT_Z) = LocalDir(e.sensorObj.direction)
               /\ e.sensorObj.direction = "+Z" => c = IDENTITY
               /\ e.sensorObj.direction = "-Z" =>
                      c \in {FromAxisAngle(axis, 180) : axis \in {UNIT_X, UNIT_Y}}

\* C13: after addSensor with a viewer, the viewer holds exactly one cone and
\* exactly one footprint of that sensor, both built from the definition just
\* given and none from an earlier one.
C13_RemoveThenRecreate ==
    [][\A id \in Children, sensorObj \in SensorEdits :
         (AddSensor(id, sensorObj) /\ viewer /\ sensorBuild = "service") =>
            LET mine == {e \in sensors' : e.owner = id /\ KeyOf(e.sensorObj) = << SensorKey >>}
            IN /\ Cardinality({e \in mine : e.shape = "cylinder"}) = 1
               /\ Cardinality({e \in mine : e.shape = "ellipse"}) = 1
               /\ \A e \in mine : e.sensorObj = sensorObj /\ e.satProps = entitiesMap[id]]_vars

\* C14: for a sensor attached to an existing track no callback of a frame
\* raises: each returns a defined value or the hidden state (undefined
\* position, zero axes).
C14_CallbacksNeverRaise ==
    (sensorBuild = "service") =>
        \A out \in rendered :
            (out.satProps # NoGen) =>
                /\ ~RaisedIn(out)
                /\ out.shape = "ellipse" =>
                       out.semiMajorAxis # Undefined /\ out.semiMinorAxis # Undefined

\* C15: a track that holds a sample returns a defined position and a defined
\* orientation at every time from its first sample on, and past its last
\* sample both are frozen at the last sample.
C15_DefinedPoseFromFirstSample ==
    \A g \in 1..Len(tracks) :
        LET D == (DOMAIN tracks[g].positionProperty) \cup (DOMAIN tracks[g].orientationProperty)
        IN D # {} =>
             \A t \in QueryTimes :
                 (\E x \in D : x <= t) =>
                     /\ QueryPose(tracks[g], t).position # Undefined
                     /\ QueryPose(tracks[g], t).orientation # Undefined
                     /\ (\A x \in D : x < t) =>
                            /\ QueryPose(tracks[g], t).position
                                  = << "sample", tracks[g].positionProperty[MaxOf(D)] >>
                            /\ QueryPose(tracks[g], t).orientation
                                  = << "sample", tracks[g].orientationProperty[MaxOf(D)] >>

\* C16: the pruning of an accepted live sample at T removes from both curves
\* exactly the samples strictly before H = T - RetentionSeconds; a sample at H
\* or later is kept.
C16_PruneStrictlyBeforeHorizon ==
    [][\A s \in 1..Len(subs), d \in Datums :
          (LiveSample(s, d) /\ variant = "B" /\ entitiesMap[subs[s].id] # NoGen
             /\ ~Stale(tracks[entitiesMap[subs[s].id]], d)) =>
             LET g == entitiesMap[subs[s].id]
                 fed == WithSample(tracks[g], d)
                 new == tracks'[g]
                 H == PruneTime(d)
             IN /\ \A x \in DOMAIN fed.positionProperty :
                      x \in DOMAIN new.positionProperty <=> x >= H
                /\ \A x \in DOMAIN fed.orientationProperty :
                      x \in DOMAIN new.orientationProperty <=> x >= H
      ]_vars

\* C17: when the render clock lies within the sampled range of a curve before
\* an accepted live sample is processed, the samples bracketing the render
\* clock are still in that curve after the call.
Bracket(c, t) ==
    {x \in DOMAIN c : \/ (x <= t /\ \A y \in DOMAIN c : (y <= t) => (y <= x))
                       \/ (x >= t /\ \A y \in DOMAIN c : (y >= t) => (x <= y))}
Brackets(c, t) == (\E x \in DOMAIN c : x <= t) /\ (\E x \in DOMAIN c : x >= t)
C17_PruningKeepsBracket ==
    [][\A s \in 1..Len(subs), d \in Datums :
          (LiveSample(s, d) /\ entitiesMap[subs[s].id] # NoGen
             /\ ~Stale(tracks[entitiesMap[subs[s].id]], d)) =>
             LET g == entitiesMap[subs[s].id]
                 old == tracks[g]
                 new == tracks'[g]
             IN /\ Brackets(old.positionProperty, clockTime) =>
                      Bracket(old.positionProperty, clockTime) \subseteq DOMAIN new.positionProperty
                /\ Brackets(old.orientationProperty, clockTime) =>
                      Bracket(old.orientationProperty, clockTime)
                          \subseteq DOMAIN new.orientationProperty
      ]_vars

\* C18: in every reachable state the position curve and the orientation
\* curve of a track hold samples at exactly the same timestamps.
C18_CurvesShareTimestamps ==
    \A g \in 1..Len(tracks) :
        DOMAIN tracks[g].positionProperty = DOMAIN tracks[g].orientationProperty

\* C19: when the history request of addSatellite rejects, nothing propagates
\* to the caller, the track stays as it is, and the live subscription of the
\* entity is established.
C19_RejectionIsNonFatal ==
    [][\A k \in 1..Len(calls) :
          RequestReject(k) =>
             /\ ~last'.err
             /\ tracks' = tracks
             /\ Len(subs') = Len(subs) + 1
             /\ subs'[Len(subs')] = [id |-> calls[k].id, active |-> TRUE]
      ]_vars

\* C20: when the history request resolves with an empty or a missing result,
\* addSatellite posts nothing to the worker, adds no sample, raises nothing,
\* and the track it created is still empty with lastUpdateTime 0.
C20_EmptyHistoryLeavesTrackEmpty ==
    [][\A k \in 1..Len(calls), h \in {<< >>, NoHistory} :
          RequestResolve(k, h) =>
             /\ workerInbox' = workerInbox
             /\ workerOutbox' = workerOutbox
             /\ tracks' = tracks
             /\ ~last'.err
             /\ tracks'[calls[k].gen] = NewTrack
      ]_vars

\* An empty result has just resolved while the worker is up: nothing is in
\* flight and the created track is empty.
C20_Witness ==
    /\ last.op = "requestResolved"
    /\ workerUp
    /\ workerInbox = << >>
    /\ workerOutbox = << >>
    /\ \E k \in 1..Len(calls) :
          calls[k].pc = "returned" /\ calls[k].gen # NoGen /\ tracks[calls[k].gen] = NewTrack

\* The payload with its entries rearranged by the permutation f
Permuted(payload, f) == [k \in 1..Len(payload) |-> payload[f[k]]]

\* C21: history samples are sorted ascending by timestamp before insertion:
\* for every permutation of a history batch, ingesting it yields the same
\* track.  (A curve holds its samples in ascending order of time whatever the
\* order of insertion; what the order of the batch can change is which of two
\* records of one timestamp the track keeps.)
C21_BatchOrderIrrelevant ==
    [][(ServiceOnWorkerMessage /\ entitiesMap[Head(workerOutbox).id] # NoGen) =>
          LET m == Head(workerOutbox)
              g == entitiesMap[m.id]
          IN \A f \in Permutations(1..Len(m.payload)) :
                ProcessedTrack(tracks[g], Permuted(m.payload, f)) = tracks'[g]]_vars

\* The datum d is the one the track accepted last: lastUpdateTime is its
\* timestamp and both curves hold its pose there
AcceptedLast(track, d) ==
    /\ track.lastUpdateTime = d.utc
    /\ d.utc \in DOMAIN track.positionProperty
    /\ track.positionProperty[d.utc] = d.p
    /\ d.utc \in DOMAIN track.orientationProperty
    /\ track.orientationProperty[d.utc] = d.p

\* C22: ingesting the identical (timestamp, pose) twice in a row through
\* updateSatellite is idempotent: the second call leaves both curves,
\* lastUpdateTime and the render clock as the first call (and the frames
\* rendered since) left them.
C22_RedeliveryIsIdempotent ==
    [][\A s \in 1..Len(subs), d \in Datums :
          (/\ LiveSample(s, d)
           /\ entitiesMap[subs[s].id] # NoGen
           /\ AcceptedLast(tracks[entitiesMap[subs[s].id]], d)) =>
             /\ tracks' = tracks
             /\ clockTime' = clockTime
             /\ clockTicks' = clockTicks]_vars

\* C22 witness: of two live samples the first was accepted, frames were
\* rendered, and the second, with the timestamp of the first, was dropped
C22_Witness ==
    /\ last.op = "updateDropped"
    /\ liveCount = 2
    /\ clockTicks > 0
    /\ \E i \in Ids : /\ entitiesMap[i] # NoGen
                       /\ tracks[entitiesMap[i]].lastUpdateTime = 2 * UtcStep
                       /\ DOMAIN tracks[entitiesMap[i]].positionProperty = {2 * UtcStep}

\* C23: for every PROCESS_TELEMETRY message with id i and a batch of n raw
\* samples, the worker posts exactly one DATA_READY message with the same id
\* whose payload has n entries in the same order, entry k carrying the time
\* and position of input sample k and a quaternion iff input sample k has one.
C23_WorkerAnswersInOrder ==
    [][WorkerOnMessage =>
          LET m == Head(workerInbox)
              n == Len(workerOutbox)
          IN /\ Len(workerOutbox') = n + 1
             /\ SubSeq(workerOutbox', 1, n) = workerOutbox
             /\ workerOutbox'[n + 1].type = "DATA_READY"
             /\ workerOutbox'[n + 1].id = m.id
             /\ Len(workerOutbox'[n + 1].payload) = Len(m.data)
             /\ \A k \in 1..Len(m.data) :
                   LET out == workerOutbox'[n + 1].payload[k] IN
                   /\ out.t = m.data[k].utc
                   /\ out.p = m.data[k].p
                   /\ (out.q # NoQ) = m.data[k].hasQ
                   /\ m.data[k].hasQ => out.q = m.data[k].p]_vars

\* C23 witness: the worker has answered an unsorted batch of three samples of
\* which one carries an attitude
C23_Witness ==
    /\ last.op = "workerProcess"
    /\ Len(workerOutbox) > 0
    /\ LET payload == workerOutbox[Len(workerOutbox)].payload IN
       /\ Len(payload) = 3
       /\ payload[1].t > payload[2].t
       /\ payload[1].q = NoQ
       /\ payload[2].q # NoQ

\* C24: an edit that gives a sensor a negative range is rejected: addSensor
\* with such a definition leaves the cone and footprint entities of the last
\* valid definition in place unchanged and surfaces a validation failure
\* synchronously to the caller.
C24_NegativeRangeRejected ==
    [][\A id \in Children, sensorObj \in SensorEdits :
          (/\ AddSensor(id, sensorObj)
           /\ viewer
           /\ sensorObj.range < 0
           /\ \E e \in sensors : e.id = SensorId(id, << SensorKey >>) /\ e.sensorObj.range >= 0) =>
             /\ sensors' = sensors
             /\ last'.err]_vars

\* C25: if the worker crashes or is terminated while the service is still in
\* use, the history of an entity added afterwards is ingested synchronously on
\* the main path: when the history request resolves, the batch is in the track.
C25_HistoryBypassesDeadWorker ==
    [][\A k \in 1..Len(calls), h \in BatchHistories :
          (/\ RequestResolve(k, h)
           /\ ~workerUp
           /\ viewer
           /\ HasPoints(h)
           /\ entitiesMap[calls[k].id] = calls[k].gen) =>
             tracks'[calls[k].gen] =
                 ProcessedTrack(tracks[calls[k].gen], ProcessTelemetry(h))]_vars

\* C26: camera lock state machine: trackEntity(id) on an existing entity locks
\* the camera to that entity; flyToEntity(id) is one-shot and leaves the camera
\* with no lock (any existing lock is released, at the latest in the frame in
\* which the zoom it requested resolves); resetView() leaves no lock.
C26_CameraLockStateMachine ==
    [][/\ \A id \in Ids :
            (TrackEntity(id) /\ viewer /\ id \in viewerEntities) => trackedEntity' = id
       /\ \A id \in Ids :
            (FlyToEntity(id) /\ viewer) => (trackedEntity' = NoEntity \/ zoomTarget' = id)
       /\ ZoomFrame => trackedEntity' = NoEntity
       /\ ResetView => trackedEntity' = NoEntity]_vars

\* What a view shows: the viewer, entitiesMap, the tracks and the render clock
\* of the service the view works on
Shown(v) == services[ServiceOf(v)]

\* An operation of view v
OperationOf(v) ==
    \/ \E now \in InitClocks : ShowView(v, now)
    \/ \E id \in Ids : AddInView(v, id)
    \/ \E id \in Children : AddAwaits(v, id)
    \/ \E k \in 1..Len(pending) :
          /\ pending[k].view = v
          /\ \/ \E answered \in BOOLEAN, history \in LifeHistories :
                   AddSettlesInView(k, answered, history)
             \/ AddThenInView(k)
             \/ \E answered \in BOOLEAN, history \in Histories :
                   AddResumes(k, answered, history)
    \/ WorkerOnMessageIn(v)
    \/ ServiceOnWorkerMessageIn(v)
    \/ \E id \in Children, d \in BatchDatums : TelemetryInView(v, id, d)
    \/ \E id \in Ids : RemoveInView(v, id)
    \/ DestroyView(v)

\* C27: each view owns its own service instance: with two views open, any
\* operation on one view (init, addSatellite, updateSatellite, removeSatellite,
\* destroy) leaves the other view's viewer, entitiesMap, tracks and render
\* clock unchanged.
C27_ViewsDoNotInterfere ==
    [][\A v, w \in Views :
          (v # w /\ views[w].mounted = "mounted" /\ OperationOf(v)) =>
             Shown(w)' = Shown(w)]_vars

\* C28: in every reachable state, each sensor cone and footprint entity in the
\* viewer belongs to a satellite whose track is present in entitiesMap: after
\* removeSatellite(id) no sensor entity of id exists, and no later sensor add
\* or edit event creates one.
C28_SensorsBelongToTracks ==
    \A e \in sensors : entitiesMap[e.owner] # NoGen

\* C29: while the time authority is in fixed mode, the render clock changes
\* only on bounds events: a live sample accepted by updateSatellite in fixed
\* mode leaves the render clock unchanged.
C29_FixedModeSampleKeepsClock ==
    [][\A s \in 1..Len(subs), d \in Datums :
          (LiveSample(s, d) /\ ~realTime /\ viewer) => clockTime' = clockTime]_vars

\* C30: with several entities feeding one service in realtime mode and no
\* camera lock, the render clock never moves backwards when a live sample is
\* accepted, for every interleaving of the entities' sample streams.
C30_ClockMonotoneAcrossEntities ==
    [][\A s \in 1..Len(subs), d \in BatchDatums :
          (/\ LiveSample(s, d)
           /\ last'.op = "updateAccepted"
           /\ realTime /\ viewer /\ trackedEntity = NoEntity
           /\ \A i \in Ids : entitiesMap[i] # NoGen) =>
             clockTime' >= clockTime]_vars

\* C31: memory bound of the pruning variant: in every reachable state of a
\* track with lastUpdateTime = T > 0, neither curve holds a sample with a
\* timestamp <= T - RetentionSeconds, for every order in which the history
\* result and the live samples arrive.
C31_RetentionBound ==
    variant = "B" =>
        \A g \in 1..Len(tracks) :
            tracks[g].lastUpdateTime > 0 =>
                \A t \in (DOMAIN tracks[g].positionProperty)
                              \cup (DOMAIN tracks[g].orientationProperty) :
                    t > AddSeconds(JulianFromDate(tracks[g].lastUpdateTime), -RetentionSeconds)

\* The sensor entity e is the cone or the footprint of sensor key of satellite id
OfSensor(e, id, key) == e.owner = id /\ KeyOf(e.sensorObj) = key

\* C32: removeSatellite(id), addSensor(id, s) and removeSensor(id, s) change
\* only entities that belong to the named satellite or sensor: the entities
\* and entitiesMap entries of every other satellite and sensor (sensor keys
\* ending in '-footprint' included) are left unchanged.
C32_OnlyTheNamedChanges ==
    [][/\ \A id \in Ids, sensorObj \in NamedSensors :
            AddSensor(id, sensorObj) =>
                {e \in sensors' : ~OfSensor(e, id, KeyOf(sensorObj))}
                    = {e \in sensors : ~OfSensor(e, id, KeyOf(sensorObj))}
       /\ \A id \in Ids, key \in SensorKeys :
            RemoveSensor(id, key) =>
                {e \in sensors' : ~OfSensor(e, id, key)}
                    = {e \in sensors : ~OfSensor(e, id, key)}
       /\ \A id \in Ids :
            OnRemove(id) =>
                /\ {e \in sensors' : e.owner # id} = {e \in sensors : e.owner # id}
                /\ viewerEntities' \ {id} = viewerEntities \ {id}
                /\ \A other \in Ids \ {id} : entitiesMap'[other] = entitiesMap[other]]_vars

\* C33: for any sequence of init, addSatellite, removeSatellite and destroy,
\* the set of satellite entities in the viewer equals the key set of
\* entitiesMap (both empty when the viewer is null), and a repeated
\* addSatellite for an id already present creates no second entity, does not
\* reset the track, and issues no second history request.
C33_EntitiesMatchKeys ==
    /\ [](viewerEntities = {i \in Ids : entitiesMap[i] # NoGen})
    /\ [][\A id \in Ids :
            (OnAdd(id) /\ entitiesMap[id] # NoGen) =>
                /\ viewerEntities' = viewerEntities
                /\ UNCHANGED << entitiesMap, tracks, workerInbox >>
                /\ calls'[Len(calls')].pc # "request"]_vars

\* C34: in the viewer component that reloads history on bounds changes, if two
\* bounds events b1 then b2 occur and their history reloads complete in any
\* order, then once both handlers have finished the trajectory shown and the
\* render clock's start and stop times are those of b2, the latest bounds.
C34_LatestBoundsWin ==
    (Len(cvReloads) = 2 /\ \A k \in 1..2 : cvReloads[k].pc = "done") =>
        /\ trajectory = cvReloads[2].bounds
        /\ legacyClock.startTime = cvReloads[2].bounds.start
        /\ legacyClock.stopTime = cvReloads[2].bounds.end

\* C35: in the variant whose addSatellite awaits the history request before
\* creating the entity, if removeSatellite(id) or destroy() runs while the
\* request is pending, then after the request completes no entity and no
\* entitiesMap entry for id exists and addSatellite raises nothing.
C35_OvertakenAddCreatesNothing ==
    [][\A k \in 1..Len(pending), history \in Histories :
          (/\ AddResumes(k, TRUE, history)
           /\ pending[k].overtaken
           /\ \A j \in 1..Len(pending) : j # k => pending[j].id # pending[k].id) =>
              /\ pending[k].id \notin services'[1].entities
              /\ pending[k].id \notin services'[1].keys
              /\ pending'[k].pc # "rejected"]_vars

\* C36: after any sequence of show, mouseenter and destroy events over several
\* views, the plugin's activeService is either null or the service of a view
\* that has been shown and not yet destroyed, so a Jump to Target or Follow
\* Target action never invokes a destroyed service.
C36_ActiveServiceIsLive ==
    activeService # NoService => views[activeService].mounted = "mounted"

Posted(id, g, h) ==
    \E k \in 1..Len(workerInbox) :
        workerInbox[k].id = id /\ workerInbox[k].gen = g /\ workerInbox[k].data = h

\* Every record of h has its sample in the track: its position in the
\* position curve and, for a record that carries an attitude, its quaternion
\* in the orientation curve (a record of h at the same time may have
\* replaced either).
InTrack(track, h) ==
    \A k \in 1..Len(h) :
        /\ JulianFromDate(h[k].utc) \in DOMAIN track.positionProperty
        /\ \E j \in 1..Len(h) :
              h[j].utc = h[k].utc /\ track.positionProperty[JulianFromDate(h[k].utc)] = h[j].p
        /\ h[k].hasQ =>
              /\ JulianFromDate(h[k].utc) \in DOMAIN track.orientationProperty
              /\ \E j \in 1..Len(h) :
                    /\ h[j].utc = h[k].utc
                    /\ h[j].hasQ
                    /\ track.orientationProperty[JulianFromDate(h[k].utc)] = Normalize(h[j]).q

\* C38: liveness of bulk history: if addSatellite's history request returns a
\* non-empty batch and the entity is not removed and the service is not
\* destroyed, then under fair scheduling of the worker and of message delivery
\* every sample of the batch is eventually present in the entity's track.
C38_HistoryEventuallyInTrack ==
    \A id \in Children, g \in 1..MaxDeliveries, h \in Histories \ {<< >>, NoHistory} :
        Posted(id, g, h) ~> (entitiesMap[id] # g \/ InTrack(tracks[g], h))

====
